---- MODULE Spec2Model ----
(***************************************************************************)
(* Smart Highlights: the HighlightController of src/src/extension.ts as a  *)
(* state machine.  Rules live in scope buckets (rulesByScope) and a flat   *)
(* id index (ruleIndex); folder-scoped rules are scanned by asynchronous   *)
(* scope scans that suspend at the host's file enumeration and at every    *)
(* file read.  Every await of the source that hands control back to the    *)
(* host is a separate step of the model; everything between two awaits is  *)
(* one atomic action.                                                      *)
(***************************************************************************)
EXTENDS Integers, Sequences, FiniteSets, TLC

(***************************************************************************)
(* Bounds of the model.                                                    *)
(***************************************************************************)
MaxRules == 2
MaxCalls == 3
MaxStoreCalls == 4
MaxLoggedCalls == 2
MaxTasks == 1
MaxScopeCalls == 3
MaxEventCalls == 3
MaxOrderCalls == 3
MaxNavCalls == 7

(***************************************************************************)
(* Values.                                                                 *)
(***************************************************************************)
\* number | null: the indices of the source are 1-based, null is 0 here
NoIndex == 0
\* "no current index" of navigateToMatch, whose indices are 0-based
NoCurrent == -1
NoMatch == <<-1, -1>>

Scopes == {"document", "folder", "folderRecursive"}
OptionKeys == {"matchCase", "matchWholeWord", "useRegex"}

\* A uri is its scheme and its path segments.
FileUri(p) == [scheme |-> "file", path |-> p]
DocA == FileUri(<<"f", "a">>)
DocB == FileUri(<<"f", "s", "e">>)
Docs == {DocA, DocB}
NoDoc == [scheme |-> "none", path |-> <<>>]

\* The text of each file and document (one line each).
TextOf(d) == IF d = DocA THEN <<"a", " ", "a", "e">> ELSE <<"e", "A">>

\* Inputs of the operations.
ValidPattern == <<"a">>
OtherPattern == <<"e">>
ParenPattern == <<"(">>
BlankPattern == <<" ">>
CreatePatterns == {ValidPattern, ParenPattern, BlankPattern}
UpdatePatterns == {OtherPattern, ParenPattern, BlankPattern}
CreateColors == {<<"r">>, <<>>}
UpdateColors == {<<"g">>, <<" ">>}

(***************************************************************************)
(* Strings.                                                                *)
(***************************************************************************)
IsWhitespace(c) == c = " "

RECURSIVE TrimStart(_)
TrimStart(s) == IF s /= <<>> /\ IsWhitespace(Head(s)) THEN TrimStart(Tail(s)) ELSE s

RECURSIVE TrimEnd(_)
TrimEnd(s) ==
  IF s /= <<>> /\ IsWhitespace(s[Len(s)]) THEN TrimEnd(SubSeq(s, 1, Len(s) - 1)) ELSE s

\* String.prototype.trim
Trim(s) == TrimEnd(TrimStart(s))

UpperLetters ==
  <<"A", "B", "C", "D", "E", "F", "G", "H", "I", "J", "K", "L", "M",
    "N", "O", "P", "Q", "R", "S", "T", "U", "V", "W", "X", "Y", "Z">>
LowerLetters ==
  <<"a", "b", "c", "d", "e", "f", "g", "h", "i", "j", "k", "l", "m",
    "n", "o", "p", "q", "r", "s", "t", "u", "v", "w", "x", "y", "z">>

\* case folding of the i flag and of uri comparison, for the capital letters
\* the texts, patterns and paths of the model are made of
Fold(c) == IF c = "A" THEN "a" ELSE IF c = "E" THEN "e" ELSE c

(***************************************************************************)
(* MatchEngine: buildRegExp, the RegExp it builds, findMatches.            *)
(***************************************************************************)
EscapeChars == {".", "*", "+", "?", "^", "$", "{", "}", "(", ")", "|", "[", "]", "\\"}

\* a variant that leaves the dot as it is
RECURSIVE escapeForRegExpKeepDot(_)
escapeForRegExpKeepDot(value) ==
  IF value = <<>> THEN <<>>
  ELSE (IF Head(value) \in EscapeChars \ {"."} THEN <<"\\", Head(value)>> ELSE <<Head(value)>>)
       \o escapeForRegExpKeepDot(Tail(value))

RECURSIVE escapeForRegExp(_)
escapeForRegExp(value) ==
  IF value = <<>> THEN <<>>
  ELSE (IF Head(value) \in EscapeChars THEN <<"\\", Head(value)>> ELSE <<Head(value)>>)
       \o escapeForRegExp(Tail(value))

\* new RegExp(source): the atoms of the source, or a SyntaxError (ok = FALSE).
\* The pattern alphabet has letters, blank, ".", "*", "(" and "\": an
\* unescaped "(" is an unterminated group, a "*" with nothing before it or
\* after another "*" has nothing to repeat, a trailing "\" ends the pattern.
RECURSIVE ParseRegExp(_, _, _, _)
ParseRegExp(src, i, atoms, quantifiable) ==
  IF i > Len(src) THEN [ok |-> TRUE, atoms |-> atoms]
  ELSE LET c == src[i] IN
    IF c = "\\" THEN
      IF i = Len(src) THEN [ok |-> FALSE, atoms |-> <<>>]
      ELSE ParseRegExp(src, i + 2,
             Append(atoms, [kind |-> "lit", ch |-> src[i + 1], star |-> FALSE]), TRUE)
    ELSE IF c \in {"(", ")"} THEN [ok |-> FALSE, atoms |-> <<>>]
    ELSE IF c = "*" THEN
      IF ~quantifiable THEN [ok |-> FALSE, atoms |-> <<>>]
      ELSE ParseRegExp(src, i + 1,
             [atoms EXCEPT ![Len(atoms)].star = TRUE], FALSE)
    ELSE IF c = "." THEN
      ParseRegExp(src, i + 1, Append(atoms, [kind |-> "any", ch |-> ".", star |-> FALSE]), TRUE)
    ELSE
      ParseRegExp(src, i + 1, Append(atoms, [kind |-> "lit", ch |-> c, star |-> FALSE]), TRUE)

RegExpOf(source) == ParseRegExp(source, 1, <<>>, FALSE)

\* buildRegExp(rule, overridePattern): the compiled matcher, flags g and i
buildRegExp(r, sourcePattern) ==
  LET source == IF r.useRegex THEN sourcePattern ELSE escapeForRegExp(sourcePattern)
      re == RegExpOf(source)
  IN [ok |-> re.ok, atoms |-> re.atoms, ignoreCase |-> ~r.matchCase]

AtomMatches(a, c, ic) ==
  \/ a.kind = "any"
  \/ a.kind = "lit" /\ (IF ic THEN Fold(a.ch) = Fold(c) ELSE a.ch = c)

\* how many consecutive characters from offset pos the atom matches
RECURSIVE RunLength(_, _, _, _)
RunLength(a, text, pos, ic) ==
  IF pos < Len(text) /\ AtomMatches(a, text[pos + 1], ic)
  THEN 1 + RunLength(a, text, pos + 1, ic) ELSE 0

\* the end offset of the match of atoms[k..] at offset pos (greedy, with
\* backtracking), or -1
RECURSIVE MatchHere(_, _, _, _, _)
RECURSIVE StarTry(_, _, _, _, _, _)
MatchHere(atoms, k, text, pos, ic) ==
  IF k > Len(atoms) THEN pos
  ELSE IF atoms[k].star THEN StarTry(atoms, k, text, pos, RunLength(atoms[k], text, pos, ic), ic)
  ELSE IF pos < Len(text) /\ AtomMatches(atoms[k], text[pos + 1], ic)
       THEN MatchHere(atoms, k + 1, text, pos + 1, ic)
       ELSE -1
StarTry(atoms, k, text, pos, n, ic) ==
  LET r == MatchHere(atoms, k + 1, text, pos + n, ic) IN
  IF r /= -1 THEN r
  ELSE IF n = 0 THEN -1
  ELSE StarTry(atoms, k, text, pos, n - 1, ic)

\* regex.exec(text) from lastIndex: the leftmost match <<start, end>>
RECURSIVE RegExpExec(_, _, _)
RegExpExec(regex, text, lastIndex) ==
  IF lastIndex > Len(text) THEN NoMatch
  ELSE LET e == MatchHere(regex.atoms, 1, text, lastIndex, regex.ignoreCase) IN
    IF e /= -1 THEN <<lastIndex, e>> ELSE RegExpExec(regex, text, lastIndex + 1)

defaultWordSeparators ==
  {"~", "!", "@", "#", "$", "%", "^", "&", "*", "(", ")", "-", "=", "+", "[", "{", "]", "}",
   "\\", "|", ";", ":", "'", "\"", ",", ".", "<", ">", "/", "?"}

\* char is "" (no character) at the text boundary
isWordCharacter(char, separators) ==
  IF char = "" THEN FALSE
  ELSE IF IsWhitespace(char) THEN FALSE
  ELSE char \notin separators

matchesWordSeparators(range, fullText) ==
  LET beforeChar == IF range[1] > 0 THEN fullText[range[1]] ELSE ""
      afterChar == IF range[2] < Len(fullText) THEN fullText[range[2] + 1] ELSE ""
  IN ~isWordCharacter(beforeChar, defaultWordSeparators)
     /\ ~isWordCharacter(afterChar, defaultWordSeparators)

\* The word pattern that the language of a document contributes, if any.
\* NumberOrRun stands for the pattern
\*   (-?\d*\.\d\w*)|([^`~!@%^&*()\-=+[{\]}\\|;:'",.<>/?\s]+)
\* a number with a fraction, or a run of characters that are neither
\* punctuation nor white space.
NoWordPattern == "none"
NumberOrRun == "numberOrRun"
WordPatterns == {NoWordPattern, NumberOrRun}

IsDigit(c) == c \in {"0", "1", "2", "3", "4", "5", "6", "7", "8", "9"}

\* \w
IsWordClass(c) ==
  \/ IsDigit(c) \/ c = "_"
  \/ \E i \in DOMAIN UpperLetters : c = UpperLetters[i] \/ c = LowerLetters[i]

RunExcluded ==
  {"`", "~", "!", "@", "%", "^", "&", "*", "(", ")", "-", "=", "+", "[", "{", "]", "}",
   "\\", "|", ";", ":", "'", "\"", ",", ".", "<", ">", "/", "?"}

\* the character is part of a run: neither white space nor punctuation
InRun(c) == ~IsWhitespace(c) /\ c \notin RunExcluded

\* the offset after the characters of a class that stand at offset pos
RECURSIVE SkipDigits(_, _)
SkipDigits(text, pos) ==
  IF pos < Len(text) /\ IsDigit(text[pos + 1]) THEN SkipDigits(text, pos + 1) ELSE pos

RECURSIVE SkipWordClass(_, _)
SkipWordClass(text, pos) ==
  IF pos < Len(text) /\ IsWordClass(text[pos + 1]) THEN SkipWordClass(text, pos + 1) ELSE pos

RECURSIVE SkipRun(_, _)
SkipRun(text, pos) ==
  IF pos < Len(text) /\ InRun(text[pos + 1]) THEN SkipRun(text, pos + 1) ELSE pos

\* the end offset of -?\d*\.\d\w* at offset pos, or -1
NumberEnd(text, pos) ==
  LET afterSign == IF pos < Len(text) /\ text[pos + 1] = "-" THEN pos + 1 ELSE pos
      afterDigits == SkipDigits(text, afterSign)
  IN IF /\ afterDigits + 1 < Len(text)
        /\ text[afterDigits + 1] = "."
        /\ IsDigit(text[afterDigits + 2])
       THEN SkipWordClass(text, afterDigits + 2)
       ELSE -1

\* the end offset of the run at offset pos, or -1
RunEnd(text, pos) ==
  LET e == SkipRun(text, pos) IN IF e > pos THEN e ELSE -1

\* wordPattern.exec(text) from lastIndex
RECURSIVE WordExec(_, _)
WordExec(text, lastIndex) ==
  IF lastIndex >= Len(text) THEN NoMatch
  ELSE LET n == NumberEnd(text, lastIndex)
           e == IF n /= -1 THEN n ELSE RunEnd(text, lastIndex)
       IN IF e /= -1 THEN <<lastIndex, e>> ELSE WordExec(text, lastIndex + 1)

\* document.getWordRangeAtPosition(position, wordPattern) on a line shorter
\* than the host's search window: the first word, from the start of the
\* line, that begins at or before the position and ends at or after it
RECURSIVE WordEnclosing(_, _, _)
WordEnclosing(text, pos, lastIndex) ==
  LET m == WordExec(text, lastIndex) IN
  IF m = NoMatch THEN NoMatch
  ELSE IF m[1] <= pos /\ m[2] >= pos THEN m
  ELSE IF m[1] > pos THEN NoMatch
  ELSE WordEnclosing(text, pos, m[2])

getWordRangeAtPosition(text, pos) == WordEnclosing(text, pos, 0)

\* isWholeWordMatch for a document whose language contributes wordPattern
isWholeWordMatchIn(wordPattern, range, fullText) ==
  IF wordPattern /= NoWordPattern
    THEN getWordRangeAtPosition(fullText, range[1]) = range
    ELSE matchesWordSeparators(range, fullText)

RECURSIVE FindLoopIn(_, _, _, _, _, _)
FindLoopIn(regex, wordPattern, text, lastIndex, wholeWord, ranges) ==
  LET m == RegExpExec(regex, text, lastIndex) IN
  IF m = NoMatch THEN ranges
  ELSE IF m[2] = m[1] THEN FindLoopIn(regex, wordPattern, text, m[1] + 1, wholeWord, ranges)
  ELSE IF wholeWord /\ ~isWholeWordMatchIn(wordPattern, m, text)
       THEN FindLoopIn(regex, wordPattern, text, m[2], wholeWord, ranges)
  ELSE FindLoopIn(regex, wordPattern, text, m[2], wholeWord, Append(ranges, m))

\* findMatches(document, rule) for a document of the given text whose
\* language contributes the given word pattern: the ranges, as
\* <<start offset, end offset>>
findMatchesIn(wordPattern, text, r) ==
  FindLoopIn(buildRegExp(r, r.pattern), wordPattern, text, 0, r.matchWholeWord, <<>>)

\* The files of the workspace are plain text, a language that contributes no
\* word pattern: the separators decide.
isWholeWordMatch(range, fullText) == matchesWordSeparators(range, fullText)

RECURSIVE FindLoop(_, _, _, _, _)
FindLoop(regex, text, lastIndex, wholeWord, ranges) ==
  LET m == RegExpExec(regex, text, lastIndex) IN
  IF m = NoMatch THEN ranges
  ELSE IF m[2] = m[1] THEN FindLoop(regex, text, m[1] + 1, wholeWord, ranges)
  ELSE IF wholeWord /\ ~isWholeWordMatch(m, text)
       THEN FindLoop(regex, text, m[2], wholeWord, ranges)
  ELSE FindLoop(regex, text, m[2], wholeWord, Append(ranges, m))

\* one turn of the while loop of findMatches that leaves lastIndex where
\* exec has put it after a zero-width match
findMatchesStepNoAdvance(regex, text, wholeWord, st) ==
  LET m == RegExpExec(regex, text, st.lastIndex) IN
  IF m = NoMatch THEN [st EXCEPT !.done = TRUE]
  ELSE IF m[2] = m[1] THEN [st EXCEPT !.lastIndex = m[1]]
  ELSE IF wholeWord /\ ~isWholeWordMatch(m, text) THEN [st EXCEPT !.lastIndex = m[2]]
  ELSE [st EXCEPT !.lastIndex = m[2], !.ranges = Append(@, m)]

\* one turn of the while loop of findMatches: st holds regex.lastIndex, the
\* ranges pushed so far and whether exec has returned null
findMatchesStep(regex, text, wholeWord, st) ==
  LET m == RegExpExec(regex, text, st.lastIndex) IN
  IF m = NoMatch THEN [st EXCEPT !.done = TRUE]
  ELSE IF m[2] = m[1] THEN [st EXCEPT !.lastIndex = m[1] + 1]
  ELSE IF wholeWord /\ ~isWholeWordMatch(m, text) THEN [st EXCEPT !.lastIndex = m[2]]
  ELSE [st EXCEPT !.lastIndex = m[2], !.ranges = Append(@, m)]

\* findMatches(document, rule) for a file of the workspace
findMatches(text, r) ==
  FindLoop(buildRegExp(r, r.pattern), text, 0, r.matchWholeWord, <<>>)

(***************************************************************************)
(* ScopeResolver.                                                          *)
(***************************************************************************)
\* the guard of getFolderHierarchyForUri
HierarchyLimit == 50

createScopeKey(scope, targetUri) == <<scope, targetUri>>

\* path.dirname: NoDoc stands for null
getContainingFolderUri(uri) ==
  IF uri.scheme /= "file" THEN NoDoc
  ELSE IF uri.path = <<>> THEN NoDoc
  ELSE FileUri(SubSeq(uri.path, 1, Len(uri.path) - 1))

getParentFolderUri(folderUri) == getContainingFolderUri(folderUri)

RECURSIVE FolderChain(_, _)
FolderChain(current, safety) ==
  IF current = NoDoc \/ safety >= HierarchyLimit THEN <<>>
  ELSE <<current>> \o FolderChain(getParentFolderUri(current), safety + 1)

getFolderHierarchyForUri(uri) == FolderChain(getContainingFolderUri(uri), 0)

normalizeUriForComparison(uri) ==
  [scheme |-> uri.scheme, path |-> [i \in DOMAIN uri.path |-> Fold(uri.path[i])]]

areUrisEqual(a, b) == normalizeUriForComparison(a) = normalizeUriForComparison(b)

isDescendantUri(candidate, folder) ==
  LET c == normalizeUriForComparison(candidate)
      f == normalizeUriForComparison(folder)
  IN /\ c.scheme = f.scheme
     /\ Len(f.path) <= Len(c.path)
     /\ SubSeq(c.path, 1, Len(f.path)) = f.path

ScopeInfo(scope, targetUri) ==
  [scope |-> scope, targetUri |-> targetUri, key |-> createScopeKey(scope, targetUri)]

\* a variant that gives a folder scope its identity also when the document
\* has no containing folder
resolveScopeForDocumentNoFallback(documentUri, preferredScope) ==
  LET documentInfo == ScopeInfo("document", documentUri)
      folderUri == getContainingFolderUri(documentUri)
  IN IF preferredScope = "folderRecursive" THEN ScopeInfo("folderRecursive", folderUri)
     ELSE IF preferredScope = "folder" THEN ScopeInfo("folder", folderUri)
     ELSE IF preferredScope /= "" THEN documentInfo
     ELSE IF folderUri /= NoDoc THEN ScopeInfo("folderRecursive", folderUri)
     ELSE documentInfo

\* preferredScope is "" when the caller gives none
resolveScopeForDocument(documentUri, preferredScope) ==
  LET documentInfo == ScopeInfo("document", documentUri)
      folderUri == getContainingFolderUri(documentUri)
  IN IF preferredScope = "folderRecursive" /\ folderUri /= NoDoc
       THEN ScopeInfo("folderRecursive", folderUri)
     ELSE IF preferredScope = "folder" /\ folderUri /= NoDoc
       THEN ScopeInfo("folder", folderUri)
     ELSE IF preferredScope /= "" THEN documentInfo
     ELSE IF folderUri /= NoDoc THEN ScopeInfo("folderRecursive", folderUri)
     ELSE documentInfo

getScopeKeysForUri(uri) ==
  LET folders == getFolderHierarchyForUri(uri) IN
  {createScopeKey("document", uri)}
  \cup (IF folders = <<>> THEN {} ELSE {createScopeKey("folder", folders[1])})
  \cup {createScopeKey("folderRecursive", folders[i]) : i \in DOMAIN folders}

doesScopeApplyToDocument(scope, targetUri, documentUri) ==
  IF scope = "document" THEN documentUri = targetUri
  ELSE LET folderUri == getContainingFolderUri(documentUri) IN
    IF folderUri = NoDoc THEN FALSE
    ELSE IF scope = "folder" THEN areUrisEqual(folderUri, targetUri)
    ELSE isDescendantUri(folderUri, targetUri)

\* value.split('|'): the parts between the bars, empty ones included
RECURSIVE SplitBar(_, _)
SplitBar(s, part) ==
  IF s = <<>> THEN <<part>>
  ELSE IF Head(s) = "|" THEN <<part>> \o SplitBar(Tail(s), <<>>)
  ELSE SplitBar(Tail(s), Append(part, Head(s)))

\* .map(trim).filter(length > 0)
FilterParts(value) ==
  LET parts == SplitBar(value, <<>>)
      trimmed == [i \in DOMAIN parts |-> Trim(parts[i])]
      NonEmpty(x) == x /= <<>>
  IN SelectSeq(trimmed, NonEmpty)

RECURSIVE JoinBar(_)
JoinBar(parts) ==
  IF parts = <<>> THEN <<>>
  ELSE IF Len(parts) = 1 THEN parts[1]
  ELSE parts[1] \o <<"|">> \o JoinBar(Tail(parts))

\* the filter as stored: its non-blank parts joined by bars, <<>> for none
normalizeFileFilter(value) == JoinBar(FilterParts(value))

\* one matcher per part of the stored filter, <<>> for none
createFilterMatchers(value) == FilterParts(value)

\* the file-name filter: a glob per "|"-separated part, tested on the base name
RECURSIVE GlobTest(_, _)
GlobTest(glob, name) ==
  IF glob = <<>> THEN name = <<>>
  ELSE IF Head(glob) = "*"
    THEN GlobTest(Tail(glob), name) \/ (name /= <<>> /\ GlobTest(glob, Tail(name)))
  ELSE /\ name /= <<>>
       /\ (Head(glob) = "?" \/ Fold(Head(glob)) = Fold(Head(name)))
       /\ GlobTest(Tail(glob), Tail(name))

getFileNameForUri(uri) == <<uri.path[Len(uri.path)]>>

isFileIncluded(r, uri) ==
  \/ r.filterMatchers = <<>>
  \/ \E i \in DOMAIN r.filterMatchers : GlobTest(r.filterMatchers[i], getFileNameForUri(uri))

(***************************************************************************)
(* The host: the files of the workspace, in the order the host lists them. *)
(***************************************************************************)
FileList == <<DocA, DocB>>

readImmediateFiles(folderUri) ==
  LET In(u) == getContainingFolderUri(u) = folderUri IN SelectSeq(FileList, In)

readRecursiveFiles(folderUri) ==
  LET Under(u) == /\ Len(folderUri.path) < Len(u.path)
                  /\ SubSeq(u.path, 1, Len(folderUri.path)) = folderUri.path
  IN SelectSeq(FileList, Under)

collectUrisForRuleScope(scope, targetUri) ==
  IF scope = "document" THEN <<targetUri>>
  ELSE IF scope = "folder" THEN readImmediateFiles(targetUri)
  ELSE readRecursiveFiles(targetUri)

(***************************************************************************)
(* State.                                                                  *)
(***************************************************************************)
VARIABLES
  rules,                      \* every HighlightRule object ever built, by id
  ruleIndex,                  \* the ids in the flat index
  rulesByScope,               \* scope key -> the ids of the bucket, in order
  documentRuleIds,            \* document -> the ids applied to it
  pendingScopeScans,          \* rule id -> the scan (promise) in flight
  pendingScopeRescanRuleIds,  \* the ids with a rescan requested
  scans,                      \* the activations of performScopeScan
  nextScan,                   \* the next scan identity
  disposed,                   \* decoration handle -> number of dispose() calls
  lastScan,                   \* rule id -> its last ended scan: read, after (history)
  scopeChanged,               \* the rule ids changeRuleScope has moved (history)
  tasks,                      \* the calls suspended at an await of the host
  visible, active, selection, text,   \* the host's editors and documents
  budget,                     \* the calls still to be made
  log,                        \* whether last is kept
  last                        \* the last call that returned, and what it returned

storeVars == <<rules, ruleIndex, rulesByScope, documentRuleIds, pendingScopeScans,
               pendingScopeRescanRuleIds, scans, nextScan, disposed, lastScan,
               scopeChanged>>
hostVars == <<visible, active, selection, text>>
vars == <<storeVars, tasks, hostVars, budget, log, last>>

\* The controller's state as one value, so that a handler is the composition
\* of the methods it calls; ret is the value the last method returned, fired
\* whether notifyRulesChanged() has been called.
Cur ==
  [rules |-> rules, ruleIndex |-> ruleIndex, rulesByScope |-> rulesByScope,
   documentRuleIds |-> documentRuleIds, pendingScopeScans |-> pendingScopeScans,
   pendingScopeRescanRuleIds |-> pendingScopeRescanRuleIds, scans |-> scans,
   nextScan |-> nextScan, disposed |-> disposed, lastScan |-> lastScan,
   scopeChanged |-> scopeChanged, ret |-> FALSE, fired |-> FALSE]

Commit(S) ==
  /\ rules' = S.rules
  /\ ruleIndex' = S.ruleIndex
  /\ rulesByScope' = S.rulesByScope
  /\ documentRuleIds' = S.documentRuleIds
  /\ pendingScopeScans' = S.pendingScopeScans
  /\ pendingScopeRescanRuleIds' = S.pendingScopeRescanRuleIds
  /\ scans' = S.scans
  /\ nextScan' = S.nextScan
  /\ disposed' = S.disposed
  /\ lastScan' = S.lastScan
  /\ scopeChanged' = S.scopeChanged

\* the editors of the host, as a handler sees them
Host == [visible |-> visible, active |-> active, selection |-> selection, text |-> text]

EmptyMap == [x \in {} |-> x]
MapPut(f, k, v) == [x \in DOMAIN f \cup {k} |-> IF x = k THEN v ELSE f[x]]
MapDel(f, k) == [x \in DOMAIN f \ {k} |-> f[x]]

RemoveAt(seq, i) == SubSeq(seq, 1, i - 1) \o SubSeq(seq, i + 1, Len(seq))

\* Array.prototype.findIndex, 1-based; 0 when there is none
FindIndex(seq, v) ==
  IF \E i \in DOMAIN seq : seq[i] = v
  THEN CHOOSE i \in DOMAIN seq : seq[i] = v /\ \A j \in 1..(i - 1) : seq[j] /= v
  ELSE 0

(***************************************************************************)
(* NavigationIndex: per-document stats.                                    *)
(***************************************************************************)
EmptyStats == [matchCount |-> 0, currentMatchIndex |-> NoIndex, ranges |-> <<>>]

\* a variant that takes a range the selection overlaps for one it contains
computeSelectionMatchIndexOverlap(sel, ranges) ==
  LET Hit(i) ==
        IF sel[1] /= sel[2]
        THEN sel[1] < ranges[i][2] /\ sel[2] > ranges[i][1]
        ELSE sel[1] >= ranges[i][1] /\ sel[1] <= ranges[i][2]
  IN IF ranges = <<>> THEN NoIndex
     ELSE IF \E i \in DOMAIN ranges : Hit(i)
       THEN CHOOSE i \in DOMAIN ranges : Hit(i) /\ \A j \in 1..(i - 1) : ~Hit(j)
     ELSE NoIndex

\* selection is <<start offset, end offset>>
computeSelectionMatchIndex(sel, ranges) ==
  LET Hit(i) ==
        IF sel[1] /= sel[2]
        THEN \/ ranges[i][1] = sel[1] /\ ranges[i][2] = sel[2]
             \/ sel[1] <= ranges[i][1] /\ sel[2] >= ranges[i][2]
        ELSE sel[1] >= ranges[i][1] /\ sel[1] <= ranges[i][2]
  IN IF ranges = <<>> THEN NoIndex
     ELSE IF \E i \in DOMAIN ranges : Hit(i)
       THEN CHOOSE i \in DOMAIN ranges : Hit(i) /\ \A j \in 1..(i - 1) : ~Hit(j)
     ELSE NoIndex

getOrCreateStats(S, id, d) ==
  IF d \in DOMAIN S.rules[id].statsByDocument THEN S
  ELSE [S EXCEPT !.rules[id].statsByDocument = MapPut(@, d, EmptyStats)]

\* the ids of the rules whose bucket covers the uri and whose filter includes it
getRulesForUri(S, uri) ==
  LET keys == getScopeKeysForUri(uri) IN
  {id \in DOMAIN S.rules :
     /\ \E k \in keys \cap DOMAIN S.rulesByScope :
          \E i \in DOMAIN S.rulesByScope[k] : S.rulesByScope[k][i] = id
     /\ isFileIncluded(S.rules[id], uri)}

removeRuleFromDocument(S, id, d) ==
  LET ids == IF d \in DOMAIN S.documentRuleIds THEN S.documentRuleIds[d] \ {id} ELSE {} IN
  [S EXCEPT !.rules[id].statsByDocument = MapDel(@, d),
            !.documentRuleIds = IF d \notin DOMAIN @ THEN @
                                ELSE IF ids = {} THEN MapDel(@, d)
                                ELSE MapPut(@, d, ids)]

RECURSIVE ClearDocs(_, _, _)
ClearDocs(S, id, ds) ==
  IF ds = {} THEN S
  ELSE LET d == CHOOSE x \in ds : TRUE IN ClearDocs(removeRuleFromDocument(S, id, d), id, ds \ {d})

clearRuleFromAllDocuments(S, id) == ClearDocs(S, id, DOMAIN S.rules[id].statsByDocument)

\* applyRules(editor) for the editor of document d
applyRules(S, H, d) ==
  LET ids == getRulesForUri(S, d)
      previousRuleIds == IF d \in DOMAIN S.documentRuleIds THEN S.documentRuleIds[d] ELSE {}
      Applied(r) ==
        LET ranges == findMatches(H.text[d], r) IN
        [matchCount |-> Len(ranges),
         ranges |-> ranges,
         currentMatchIndex |->
           IF ranges = <<>> THEN NoIndex
           ELSE IF d = H.active THEN computeSelectionMatchIndex(H.selection[d], ranges)
           ELSE NoIndex]
  IN [S EXCEPT
        !.rules = [id \in DOMAIN @ |->
           IF id \in ids
             THEN [@[id] EXCEPT !.statsByDocument = MapPut(@, d, Applied(S.rules[id]))]
           ELSE IF id \in previousRuleIds /\ id \in S.ruleIndex
             THEN [@[id] EXCEPT !.statsByDocument = MapDel(@, d)]
           ELSE @[id]],
        !.documentRuleIds = IF ids = {} THEN MapDel(@, d) ELSE MapPut(@, d, ids)]

RECURSIVE ApplyEditors(_, _, _)
ApplyEditors(S, H, ds) ==
  IF ds = {} THEN S
  ELSE LET d == CHOOSE x \in ds : TRUE IN ApplyEditors(applyRules(S, H, d), H, ds \ {d})

refreshEditorsForScope(S, H, scope, targetUri) ==
  ApplyEditors(S, H, {d \in H.visible : doesScopeApplyToDocument(scope, targetUri, d)})

refreshEditorsForRule(S, H, id) ==
  refreshEditorsForScope(S, H, S.rules[id].scope, S.rules[id].targetUri)

(***************************************************************************)
(* ScopeScanner: scheduleScopeScan and performScopeScan.                   *)
(***************************************************************************)
\* performScopeScan runs up to the await of the file enumeration: the scope
\* and target it enumerates are the rule's at this moment.
\* after, requests and read are history: the scan whose end started this one
\* (0: a call did), the requests coalesced while it runs, the files it read.
StartScan(S, id, after) ==
  [S EXCEPT
     !.scans = @ \cup {[sid |-> S.nextScan, rule |-> id, phase |-> "collect",
                        scope |-> S.rules[id].scope, targetUri |-> S.rules[id].targetUri,
                        todo |-> <<>>, after |-> after, requests |-> 0, read |-> {}]},
     !.pendingScopeScans = MapPut(@, id, S.nextScan),
     !.nextScan = @ + 1]

\* a variant without the pendingScopeScans check
scheduleScopeScanUnguarded(S, id, after) ==
  IF S.rules[id].scope = "document" THEN S ELSE StartScan(S, id, after)

\* scheduleScopeScan(rule); after: the scan whose finally() makes the call, or 0
scheduleScopeScan(S, id, after) ==
  IF S.rules[id].scope = "document" THEN S
  ELSE IF id \in DOMAIN S.pendingScopeScans
    THEN [S EXCEPT
            !.pendingScopeRescanRuleIds = @ \cup {id},
            !.scans = {IF s.rule = id THEN [s EXCEPT !.requests = @ + 1] ELSE s : s \in @}]
  ELSE StartScan(S, id, after)

\* a variant whose finally() drops the rescan request instead of serving it
FinishScanNoRescan(S, s) ==
  [S EXCEPT !.rules[s.rule].globalMatchIndex = NoIndex,
            !.fired = TRUE,
            !.scans = @ \ {s},
            !.pendingScopeScans = MapDel(@, s.rule),
            !.pendingScopeRescanRuleIds = @ \ {s.rule},
            !.lastScan = MapPut(@, s.rule, [read |-> s.read, after |-> s.after])]

\* a variant whose finally() leaves the rescan request where it is
FinishScanKeepRequest(S, s) ==
  [S EXCEPT !.rules[s.rule].globalMatchIndex = NoIndex,
            !.fired = TRUE,
            !.scans = @ \ {s},
            !.pendingScopeScans = MapDel(@, s.rule),
            !.lastScan = MapPut(@, s.rule, [read |-> s.read, after |-> s.after])]

\* the end of performScopeScan and the finally() of scheduleScopeScan
FinishScan(S, s) ==
  LET S1 == [S EXCEPT !.rules[s.rule].globalMatchIndex = NoIndex,
                      !.fired = TRUE,
                      !.scans = @ \ {s},
                      !.pendingScopeScans = MapDel(@, s.rule),
                      !.lastScan = MapPut(@, s.rule, [read |-> s.read, after |-> s.after])]
  IN IF s.rule \in S1.pendingScopeRescanRuleIds
     THEN scheduleScopeScan(
            [S1 EXCEPT !.pendingScopeRescanRuleIds = @ \ {s.rule}], s.rule, s.sid)
     ELSE S1

\* a variant without the finally(): the entry of a rejected scan stays
AbortScanNoFinally(S, s) == [S EXCEPT !.scans = @ \ {s}]

\* performScopeScan rejected: collectUrisForRuleScope returns the host's
\* promise from inside its try without awaiting it, so a failed enumeration
\* is not turned into an empty list; catch() logs it and finally() runs, the
\* end of performScopeScan does not
AbortScan(S, s) ==
  LET S1 == [S EXCEPT !.scans = @ \ {s},
                      !.pendingScopeScans = MapDel(@, s.rule),
                      !.lastScan = MapPut(@, s.rule, [read |-> s.read, after |-> s.after])]
  IN IF s.rule \in S1.pendingScopeRescanRuleIds
     THEN scheduleScopeScan(
            [S1 EXCEPT !.pendingScopeRescanRuleIds = @ \ {s.rule}], s.rule, s.sid)
     ELSE S1

\* a variant that keeps the cached stats of a file without matches
scanRuleInUriKeepStale(S, H, id, uri, ok) ==
  IF ~ok \/ ~buildRegExp(S.rules[id], S.rules[id].pattern).ok THEN S
  ELSE LET ranges == findMatches(H.text[uri], S.rules[id]) IN
    IF ranges = <<>> THEN S
    ELSE [S EXCEPT !.rules[id].statsByDocument =
            MapPut(@, uri, [matchCount |-> Len(ranges), ranges |-> ranges,
                            currentMatchIndex |-> NoIndex])]

\* a variant that forgets the cached stats of a file it could not read
scanRuleInUriDropFailed(S, H, id, uri, ok) ==
  IF ~ok THEN [S EXCEPT !.rules[id].statsByDocument = MapDel(@, uri)]
  ELSE IF ~buildRegExp(S.rules[id], S.rules[id].pattern).ok THEN S
  ELSE LET ranges == findMatches(H.text[uri], S.rules[id]) IN
    IF ranges = <<>>
    THEN [S EXCEPT !.rules[id].statsByDocument = MapDel(@, uri)]
    ELSE [S EXCEPT !.rules[id].statsByDocument =
            MapPut(@, uri, [matchCount |-> Len(ranges), ranges |-> ranges,
                            currentMatchIndex |-> NoIndex])]

\* scanRuleInUri after openTextDocument: ok is whether the read succeeded
scanRuleInUri(S, H, id, uri, ok) ==
  IF ~ok \/ ~buildRegExp(S.rules[id], S.rules[id].pattern).ok THEN S
  ELSE LET ranges == findMatches(H.text[uri], S.rules[id]) IN
    IF ranges = <<>>
    THEN [S EXCEPT !.rules[id].statsByDocument = MapDel(@, uri)]
    ELSE [S EXCEPT !.rules[id].statsByDocument =
            MapPut(@, uri, [matchCount |-> Len(ranges), ranges |-> ranges,
                            currentMatchIndex |-> NoIndex])]

(***************************************************************************)
(* RuleStore.                                                              *)
(***************************************************************************)
Dispose(S, handle) == [S EXCEPT !.disposed[handle] = @ + 1]

NewRule(id, o, pattern, color, scopeInfo, handle) ==
  [id |-> id, pattern |-> pattern, color |-> color, matchCase |-> o.matchCase,
   matchWholeWord |-> o.matchWholeWord, useRegex |-> o.useRegex, decoration |-> handle,
   scope |-> scopeInfo.scope, targetUri |-> scopeInfo.targetUri,
   statsByDocument |-> EmptyMap, globalMatchIndex |-> NoIndex,
   fileFilter |-> normalizeFileFilter(o.fileFilter),
   filterMatchers |-> createFilterMatchers(normalizeFileFilter(o.fileFilter))]

\* a variant that leaves the decoration of a rejected draft undisposed
createRuleFromOptionsLeak(S, H, doc, o) ==
  LET pattern == Trim(o.pattern)
      color == Trim(o.color)
      scopeInfo == resolveScopeForDocument(doc, o.scope)
      handle == Len(S.disposed) + 1
      id == Len(S.rules) + 1
      rule == NewRule(id, o, pattern, color, scopeInfo, handle)
      S1 == [S EXCEPT !.disposed = Append(@, 0)]
      key == scopeInfo.key
      S2 == [S1 EXCEPT
               !.rules = Append(@, rule),
               !.rulesByScope =
                 MapPut(@, key, Append(IF key \in DOMAIN @ THEN @[key] ELSE <<>>, id)),
               !.ruleIndex = @ \cup {id}]
  IN IF pattern = <<>> THEN [S EXCEPT !.ret = FALSE]
     ELSE IF color = <<>> THEN [S EXCEPT !.ret = FALSE]
     ELSE IF rule.useRegex /\ ~buildRegExp(rule, rule.pattern).ok
       THEN [S1 EXCEPT !.ret = FALSE]
     ELSE [refreshEditorsForScope(scheduleScopeScan(S2, id, 0), H, rule.scope, rule.targetUri)
             EXCEPT !.ret = TRUE, !.fired = TRUE]

\* createRuleFromOptions(editor, options, scope); ret: whether a rule was made
createRuleFromOptions(S, H, doc, o) ==
  LET pattern == Trim(o.pattern)
      color == Trim(o.color)
      scopeInfo == resolveScopeForDocument(doc, o.scope)
      handle == Len(S.disposed) + 1
      id == Len(S.rules) + 1
      rule == NewRule(id, o, pattern, color, scopeInfo, handle)
      S1 == [S EXCEPT !.disposed = Append(@, 0)]
      key == scopeInfo.key
      S2 == [S1 EXCEPT
               !.rules = Append(@, rule),
               !.rulesByScope =
                 MapPut(@, key, Append(IF key \in DOMAIN @ THEN @[key] ELSE <<>>, id)),
               !.ruleIndex = @ \cup {id}]
  IN IF pattern = <<>> THEN [S EXCEPT !.ret = FALSE]
     ELSE IF color = <<>> THEN [S EXCEPT !.ret = FALSE]
     ELSE IF rule.useRegex /\ ~buildRegExp(rule, rule.pattern).ok
       THEN [Dispose(S1, handle) EXCEPT !.ret = FALSE]
     ELSE [refreshEditorsForScope(scheduleScopeScan(S2, id, 0), H, rule.scope, rule.targetUri)
             EXCEPT !.ret = TRUE, !.fired = TRUE]

\* a variant that keeps the bucket the rule leaves, even when it empties
moveRuleToScopeKeepEmpty(S, id, scopeInfo) ==
  LET previousKey == createScopeKey(S.rules[id].scope, S.rules[id].targetUri)
      S1 == IF previousKey \notin DOMAIN S.rulesByScope THEN S
            ELSE LET previousRules == S.rulesByScope[previousKey]
                     index == FindIndex(previousRules, id)
                     left == IF index /= 0 THEN RemoveAt(previousRules, index)
                             ELSE previousRules
                 IN [S EXCEPT !.rulesByScope = MapPut(@, previousKey, left)]
      nextKey == scopeInfo.key
  IN [S1 EXCEPT
        !.rules[id].scope = scopeInfo.scope,
        !.rules[id].targetUri = scopeInfo.targetUri,
        !.rulesByScope =
          MapPut(@, nextKey, Append(IF nextKey \in DOMAIN @ THEN @[nextKey] ELSE <<>>, id))]

moveRuleToScope(S, id, scopeInfo) ==
  LET previousKey == createScopeKey(S.rules[id].scope, S.rules[id].targetUri)
      S1 == IF previousKey \notin DOMAIN S.rulesByScope THEN S
            ELSE LET previousRules == S.rulesByScope[previousKey]
                     index == FindIndex(previousRules, id)
                     left == IF index /= 0 THEN RemoveAt(previousRules, index)
                             ELSE previousRules
                 IN [S EXCEPT !.rulesByScope =
                       IF left = <<>> THEN MapDel(@, previousKey)
                       ELSE MapPut(@, previousKey, left)]
      nextKey == scopeInfo.key
  IN [S1 EXCEPT
        !.rules[id].scope = scopeInfo.scope,
        !.rules[id].targetUri = scopeInfo.targetUri,
        !.rulesByScope =
          MapPut(@, nextKey, Append(IF nextKey \in DOMAIN @ THEN @[nextKey] ELSE <<>>, id))]

removeRuleByInstance(S, H, id) ==
  LET key == createScopeKey(S.rules[id].scope, S.rules[id].targetUri) IN
  IF key \notin DOMAIN S.rulesByScope THEN [S EXCEPT !.ret = FALSE]
  ELSE LET bucket == S.rulesByScope[key]
           index == FindIndex(bucket, id)
           left == RemoveAt(bucket, index)
           S1 == [S EXCEPT
                    !.rulesByScope = IF left = <<>> THEN MapDel(@, key)
                                     ELSE MapPut(@, key, left),
                    !.ruleIndex = @ \ {id}]
           S2 == Dispose(clearRuleFromAllDocuments(S1, id), S.rules[id].decoration)
       IN IF index = 0 THEN [S EXCEPT !.ret = FALSE]
          ELSE [refreshEditorsForScope(S2, H, S.rules[id].scope, S.rules[id].targetUri)
                  EXCEPT !.ret = TRUE]

removeRuleById(S, H, ruleId) ==
  IF ruleId \notin S.ruleIndex THEN [S EXCEPT !.ret = FALSE]
  ELSE removeRuleByInstance(S, H, ruleId)

deleteRule(S, H, ruleId) ==
  LET R == removeRuleById(S, H, ruleId) IN [R EXCEPT !.fired = R.ret]

\* a variant that stores the pattern before it compiles it
updateRulePatternCommitFirst(S, H, ruleId, pattern) ==
  LET trimmed == Trim(pattern) IN
  IF ruleId \notin S.ruleIndex THEN [S EXCEPT !.ret = FALSE]
  ELSE IF trimmed = <<>> THEN [S EXCEPT !.ret = FALSE]
  ELSE IF ~buildRegExp(S.rules[ruleId], trimmed).ok
    THEN [S EXCEPT !.rules[ruleId].pattern = trimmed, !.ret = FALSE]
  ELSE [refreshEditorsForRule(
          scheduleScopeScan([S EXCEPT !.rules[ruleId].pattern = trimmed], ruleId, 0), H, ruleId)
          EXCEPT !.ret = TRUE, !.fired = TRUE]

\* a variant that stores the pattern without compiling it
updateRulePatternUnchecked(S, H, ruleId, pattern) ==
  LET trimmed == Trim(pattern) IN
  IF ruleId \notin S.ruleIndex THEN [S EXCEPT !.ret = FALSE]
  ELSE IF trimmed = <<>> THEN [S EXCEPT !.ret = FALSE]
  ELSE [refreshEditorsForRule(
          scheduleScopeScan([S EXCEPT !.rules[ruleId].pattern = trimmed], ruleId, 0), H, ruleId)
          EXCEPT !.ret = TRUE, !.fired = TRUE]

updateRulePattern(S, H, ruleId, pattern) ==
  LET trimmed == Trim(pattern) IN
  IF ruleId \notin S.ruleIndex THEN [S EXCEPT !.ret = FALSE]
  ELSE IF trimmed = <<>> THEN [S EXCEPT !.ret = FALSE]
  ELSE IF ~buildRegExp(S.rules[ruleId], trimmed).ok THEN [S EXCEPT !.ret = FALSE]
  ELSE [refreshEditorsForRule(
          scheduleScopeScan([S EXCEPT !.rules[ruleId].pattern = trimmed], ruleId, 0), H, ruleId)
          EXCEPT !.ret = TRUE, !.fired = TRUE]

\* a variant without the rollback of the catch block
toggleRuleOptionNoRollback(S, H, ruleId, option) ==
  IF ruleId \notin S.ruleIndex THEN [S EXCEPT !.ret = FALSE]
  ELSE LET S1 == [S EXCEPT !.rules[ruleId][option] = ~@]
           r == S1.rules[ruleId]
       IN IF r.useRegex /\ ~buildRegExp(r, r.pattern).ok
          THEN [S1 EXCEPT !.ret = FALSE]
          ELSE [scheduleScopeScan(refreshEditorsForRule(S1, H, ruleId), ruleId, 0)
                  EXCEPT !.ret = TRUE, !.fired = TRUE]

\* ret: whether the toggle was committed (the method itself returns nothing)
toggleRuleOption(S, H, ruleId, option) ==
  IF ruleId \notin S.ruleIndex THEN [S EXCEPT !.ret = FALSE]
  ELSE LET previousValue == S.rules[ruleId][option]
           S1 == [S EXCEPT !.rules[ruleId][option] = ~previousValue]
           r == S1.rules[ruleId]
       IN IF r.useRegex /\ ~buildRegExp(r, r.pattern).ok
          THEN [[S1 EXCEPT !.rules[ruleId][option] = previousValue] EXCEPT !.ret = FALSE]
          ELSE [scheduleScopeScan(refreshEditorsForRule(S1, H, ruleId), ruleId, 0)
                  EXCEPT !.ret = TRUE, !.fired = TRUE]

updateRuleColor(S, H, ruleId, color) ==
  LET trimmed == Trim(color) IN
  IF ruleId \notin S.ruleIndex THEN [S EXCEPT !.ret = FALSE]
  ELSE IF trimmed = <<>> THEN [S EXCEPT !.ret = FALSE]
  ELSE LET S1 == Dispose(S, S.rules[ruleId].decoration)
           S2 == [S1 EXCEPT !.rules[ruleId].color = trimmed,
                            !.rules[ruleId].decoration = Len(S1.disposed) + 1,
                            !.disposed = Append(@, 0)]
       IN [refreshEditorsForRule(S2, H, ruleId) EXCEPT !.ret = TRUE, !.fired = TRUE]

\* changeRuleScope once the document is at hand
\* changeRuleScope once the document is at hand, without the comparison with
\* the rule's current scope
changeRuleScopeAlways(S, H, id, scope, documentUri) ==
  LET scopeInfo == resolveScopeForDocument(documentUri, scope)
      S1 == moveRuleToScope(S, id, scopeInfo)
      S2 == clearRuleFromAllDocuments(S1, id)
      S3 == scheduleScopeScan(S2, id, 0)
  IN [refreshEditorsForScope(S3, H, S3.rules[id].scope, S3.rules[id].targetUri)
        EXCEPT !.ret = TRUE, !.fired = TRUE, !.scopeChanged = @ \cup {id}]

changeRuleScopeTo(S, H, id, scope, documentUri) ==
  LET scopeInfo == resolveScopeForDocument(documentUri, scope) IN
  IF scopeInfo.scope = S.rules[id].scope /\ scopeInfo.targetUri = S.rules[id].targetUri
  THEN [S EXCEPT !.ret = FALSE]
  ELSE LET S1 == moveRuleToScope(S, id, scopeInfo)
           S2 == clearRuleFromAllDocuments(S1, id)
           S3 == scheduleScopeScan(S2, id, 0)
       IN [refreshEditorsForScope(S3, H, S3.rules[id].scope, S3.rules[id].targetUri)
             EXCEPT !.ret = TRUE, !.fired = TRUE, !.scopeChanged = @ \cup {id}]

(***************************************************************************)
(* Calls and events.                                                       *)
(***************************************************************************)
\* what Create may be asked for
CreateInputs ==
  [pattern : CreatePatterns, color : CreateColors, matchCase : {FALSE},
   matchWholeWord : {FALSE}, useRegex : BOOLEAN, scope : Scopes, fileFilter : {<<>>}]

\* the valid ones among them
StoreInputs == {o \in CreateInputs : o.pattern = ValidPattern /\ o.color = <<"r">> /\ ~o.useRegex}

RuleIds == 1..MaxRules

NoTask ==
  [kind |-> "none", rule |-> 0, scope |-> "", doc |-> NoDoc, dir |-> "", phase |-> "",
   sid |-> 0, target |-> 0, range |-> NoMatch, key |-> <<"", NoDoc>>,
   cur |-> 0, count |-> 0, overlap |-> FALSE]

\* a call awaiting a scan runs on in the turn that ends the scan
Resumable(t) ==
  t.kind = "navigateToMatch" /\ t.phase = "scan" /\ \A s \in scans : s.sid /= t.sid

\* the host hands out a new turn only when no continuation is due
Idle == \A t \in tasks : ~Resumable(t)

\* what a call or step that ends here leaves in last: R.ret is what it returned,
\* R.fired whether it has notified; n counts the records
Record(op, id, arg, R) ==
  /\ last' = IF log THEN [op |-> op, rule |-> id, arg |-> arg, ret |-> R.ret,
                          fired |-> R.fired, n |-> last.n + 1, nav |-> last.nav]
             ELSE last
  /\ log' = log

\* a call that changes the controller or is suspended is paid from the budget
\* (every call is, when last is kept)
Spend ==
  budget' = IF ~log /\ storeVars' = storeVars /\ tasks' = tasks THEN budget ELSE budget - 1

Returned(op, id, arg, R) == budget' = budget /\ Record(op, id, arg, R)

\* a call that ends without having done anything
Refused == [ret |-> FALSE, fired |-> FALSE]

Silent == UNCHANGED <<budget, log, last>>

\* a navigateToMatch call has shown its target: last.nav keeps, in the order
\* of the landings, what each such call started from (cur of count matches),
\* where it landed and whether it was made while another one was under way
Landed(t, R) ==
  /\ budget' = budget /\ log' = log
  /\ last' = IF log
             THEN [op |-> "navigateToMatch", rule |-> t.rule, arg |-> <<>>, ret |-> R.ret,
                   fired |-> R.fired, n |-> last.n + 1,
                   nav |-> Append(last.nav, [rule |-> t.rule, dir |-> t.dir, cur |-> t.cur,
                                             count |-> t.count, target |-> t.target,
                                             doc |-> t.doc, range |-> t.range,
                                             overlap |-> t.overlap])]
             ELSE last

Create(doc, o) ==
  /\ Idle /\ budget > 0
  /\ doc \in visible
  /\ Len(rules) < MaxRules
  /\ LET S == createRuleFromOptions(Cur, Host, doc, o) IN
       /\ Commit(S)
       /\ Record("create", IF S.ret THEN Len(rules) + 1 ELSE 0, o, S)
  /\ UNCHANGED <<tasks, hostVars>>
  /\ Spend

DeleteRule(ruleId) ==
  /\ Idle /\ budget > 0
  /\ LET S == deleteRule(Cur, Host, ruleId) IN
       Commit(S) /\ Record("deleteRule", ruleId, <<>>, S)
  /\ UNCHANGED <<tasks, hostVars>>
  /\ Spend

UpdateRulePattern(ruleId, pattern) ==
  /\ Idle /\ budget > 0
  /\ LET S == updateRulePattern(Cur, Host, ruleId, pattern) IN
       Commit(S) /\ Record("updateRulePattern", ruleId, pattern, S)
  /\ UNCHANGED <<tasks, hostVars>>
  /\ Spend

ToggleRuleOption(ruleId, option) ==
  /\ Idle /\ budget > 0
  /\ LET S == toggleRuleOption(Cur, Host, ruleId, option) IN
       Commit(S) /\ Record("toggleRuleOption", ruleId, option, S)
  /\ UNCHANGED <<tasks, hostVars>>
  /\ Spend

UpdateRuleColor(ruleId, color) ==
  /\ Idle /\ budget > 0
  /\ LET S == updateRuleColor(Cur, Host, ruleId, color) IN
       Commit(S) /\ Record("updateRuleColor", ruleId, color, S)
  /\ UNCHANGED <<tasks, hostVars>>
  /\ Spend

\* changeRuleScope: the document is found among the open ones (those shown
\* in an editor are), or the call awaits openTextDocument
ChangeRuleScope(ruleId, scope, doc) ==
  /\ Idle /\ budget > 0
  /\ IF ruleId \notin ruleIndex
     THEN /\ Record("changeRuleScope", ruleId, <<scope, doc>>, Refused)
          /\ UNCHANGED <<storeVars, tasks>>
     ELSE IF doc \in visible
     THEN /\ LET S == changeRuleScopeTo(Cur, Host, ruleId, scope, doc) IN
               Commit(S) /\ Record("changeRuleScope", ruleId, <<scope, doc>>, S)
          /\ UNCHANGED tasks
     ELSE /\ Cardinality(tasks) < MaxTasks
          /\ tasks' = tasks \cup
               {[NoTask EXCEPT !.kind = "changeRuleScope", !.rule = ruleId,
                               !.scope = scope, !.doc = doc]}
          /\ UNCHANGED <<storeVars, log, last>>
  /\ UNCHANGED hostVars
  /\ Spend

\* openTextDocument settles: ok is whether the document could be opened
ChangeRuleScopeResume(t, ok) ==
  /\ Idle
  /\ t \in tasks /\ t.kind = "changeRuleScope"
  /\ tasks' = tasks \ {t}
  /\ IF ok
     THEN LET S == changeRuleScopeTo(Cur, Host, t.rule, t.scope, t.doc) IN
            Commit(S) /\ Returned("changeRuleScope", t.rule, <<t.scope, t.doc>>, S)
     ELSE /\ Returned("changeRuleScope", t.rule, <<t.scope, t.doc>>, Refused)
          /\ UNCHANGED storeVars
  /\ UNCHANGED hostVars

\* the file enumeration of a scan settles: ok is whether it succeeded
ScanCollected(s, ok) ==
  /\ Idle
  /\ s \in scans /\ s.phase = "collect"
  /\ LET uris == IF ok THEN collectUrisForRuleScope(s.scope, s.targetUri) ELSE <<>>
         Included(u) == isFileIncluded(rules[s.rule], u)
         filteredUris == SelectSeq(uris, Included)
         S == IF ~ok THEN AbortScan(Cur, s)
              ELSE IF filteredUris = <<>>
              THEN FinishScan(Cur, s)
              ELSE [Cur EXCEPT !.scans =
                     (@ \ {s}) \cup {[s EXCEPT !.phase = "files", !.todo = filteredUris]}]
     IN Commit(S) /\ Returned("performScopeScan", s.rule, <<>>, S)
  /\ UNCHANGED <<tasks, hostVars>>

\* the read of the next file of a scan settles
ScanFileRead(s, ok) ==
  /\ Idle
  /\ s \in scans /\ s.phase = "files"
  /\ LET S1 == scanRuleInUri(Cur, Host, s.rule, Head(s.todo), ok)
         rest == Tail(s.todo)
         s1 == [s EXCEPT !.todo = rest,
                         !.read = IF ok THEN @ \cup {Head(s.todo)} ELSE @]
         S2 == [S1 EXCEPT !.scans = (@ \ {s}) \cup {s1}]
         S == IF rest = <<>> THEN FinishScan(S2, s1) ELSE S2
     IN Commit(S) /\ Returned("performScopeScan", s.rule, <<>>, S)
  /\ UNCHANGED <<tasks, hostVars>>

RECURSIVE RemoveAll(_, _, _)
RemoveAll(S, H, ids) ==
  IF ids = <<>> THEN S
  ELSE RemoveAll(removeRuleByInstance(S, H, Head(ids)), H, Tail(ids))

\* the scopes of the active document that hold rules (pickScopeForClearing)
ScopesWithRules(d) ==
  {k \in {resolveScopeForDocument(d, sc).key : sc \in Scopes} :
     k \in DOMAIN rulesByScope /\ Len(rulesByScope[k]) > 0}

clearScope(S, H, key) ==
  RemoveAll(S, H, IF key \in DOMAIN S.rulesByScope THEN S.rulesByScope[key] ELSE <<>>)

\* clearHighlights: with one scope to clear it goes on at once, with several
\* it awaits the user's pick (key)
ClearHighlights(key) ==
  /\ Idle /\ budget > 0
  /\ active /= NoDoc
  /\ key \in ScopesWithRules(active)
  /\ IF Cardinality(ScopesWithRules(active)) = 1
     THEN /\ LET S == [clearScope(Cur, Host, key) EXCEPT !.ret = TRUE, !.fired = TRUE] IN
               Commit(S) /\ Record("clearHighlights", 0, key, S)
          /\ UNCHANGED tasks
     ELSE /\ Cardinality(tasks) < MaxTasks
          /\ tasks' = tasks \cup {[NoTask EXCEPT !.kind = "clearHighlights", !.key = key]}
          /\ UNCHANGED <<storeVars, log, last>>
  /\ UNCHANGED hostVars
  /\ Spend

ClearHighlightsResume(t) ==
  /\ Idle
  /\ t \in tasks /\ t.kind = "clearHighlights"
  /\ tasks' = tasks \ {t}
  /\ LET S == [clearScope(Cur, Host, t.key) EXCEPT !.ret = TRUE, !.fired = TRUE] IN
       Commit(S) /\ Returned("clearHighlights", 0, t.key, S)
  /\ UNCHANGED hostVars

\* removeHighlightRule: the user picks one of the rules of the active document
RemoveHighlightRule(ruleId) ==
  /\ Idle /\ budget > 0
  /\ active /= NoDoc
  /\ ruleId \in getRulesForUri(Cur, active)
  /\ Cardinality(tasks) < MaxTasks
  /\ tasks' = tasks \cup {[NoTask EXCEPT !.kind = "removeHighlightRule", !.rule = ruleId]}
  /\ UNCHANGED <<storeVars, hostVars, log, last>>
  /\ Spend

RemoveHighlightRuleResume(t) ==
  /\ Idle
  /\ t \in tasks /\ t.kind = "removeHighlightRule"
  /\ tasks' = tasks \ {t}
  /\ LET R == removeRuleByInstance(Cur, Host, t.rule)
         S == [R EXCEPT !.fired = R.ret]
     IN Commit(S) /\ Returned("removeHighlightRule", t.rule, <<>>, S)
  /\ UNCHANGED hostVars

(***************************************************************************)
(* NavigationIndex: the global order and navigateToMatch.                  *)
(***************************************************************************)
\* the collation rank of the characters uris are made of
CharRank(c) ==
  IF Fold(c) = "a" THEN 1 ELSE IF Fold(c) = "e" THEN 2 ELSE IF c = "f" THEN 3 ELSE 4

\* uriA.localeCompare(uriB) < 0, on the uri strings of files: the path
\* segments are single characters, so the strings compare as the paths do
RECURSIVE PathBefore(_, _)
PathBefore(p, q) ==
  IF q = <<>> THEN FALSE
  ELSE IF p = <<>> THEN TRUE
  ELSE IF CharRank(Head(p)) /= CharRank(Head(q)) THEN CharRank(Head(p)) < CharRank(Head(q))
  ELSE PathBefore(Tail(p), Tail(q))

UriBefore(a, b) == PathBefore(a.path, b.path)

\* [...entries].sort by uri
RECURSIVE SortUris(_)
SortUris(ds) ==
  IF ds = {} THEN <<>>
  ELSE LET first == CHOOSE d \in ds : \A e \in ds \ {d} : ~UriBefore(e, d)
       IN <<first>> \o SortUris(ds \ {first})

\* compareRanges(a, b) < 0; every text is one line, so a position is an offset
compareRanges(a, b) ==
  IF a[1] /= b[1] THEN a[1] < b[1] ELSE a[2] < b[2]

\* [...ranges].sort(compareRanges): a stable sort
RECURSIVE SortRanges(_)
SortRanges(ranges) ==
  IF ranges = <<>> THEN <<>>
  ELSE LET i == CHOOSE k \in DOMAIN ranges :
                  /\ \A j \in DOMAIN ranges : ~compareRanges(ranges[j], ranges[k])
                  /\ \A j \in 1..(k - 1) : compareRanges(ranges[k], ranges[j])
       IN <<ranges[i]>> \o SortRanges(RemoveAt(ranges, i))

RECURSIVE MatchesOf(_, _)
MatchesOf(stats, uris) ==
  IF uris = <<>> THEN <<>>
  ELSE LET ordered == SortRanges(stats[Head(uris)].ranges) IN
       [i \in DOMAIN ordered |-> [uri |-> Head(uris), range |-> ordered[i]]]
       \o MatchesOf(stats, Tail(uris))

\* getOrderedMatches that lists the documents from the last to the first
getOrderedMatchesBackwards(r) ==
  LET uris == SortUris(DOMAIN r.statsByDocument) IN
  MatchesOf(r.statsByDocument, [i \in DOMAIN uris |-> uris[Len(uris) + 1 - i]])

getOrderedMatches(r) == MatchesOf(r.statsByDocument, SortUris(DOMAIN r.statsByDocument))

RECURSIVE GlobalOffset(_, _, _, _)
GlobalOffset(stats, entries, uri, localIndex) ==
  IF entries = <<>> THEN NoIndex
  ELSE IF Head(entries) = uri
    THEN IF localIndex > stats[uri].matchCount THEN NoIndex ELSE localIndex
  ELSE LET rest == GlobalOffset(stats, Tail(entries), uri, localIndex) IN
       IF rest = NoIndex THEN NoIndex ELSE stats[Head(entries)].matchCount + rest

\* computeGlobalMatchIndex without the matches of the documents before uri
computeGlobalMatchIndexLocal(r, uri, localIndex) ==
  IF localIndex = NoIndex \/ localIndex <= 0 THEN NoIndex
  ELSE IF uri \notin DOMAIN r.statsByDocument THEN NoIndex
  ELSE IF localIndex > r.statsByDocument[uri].matchCount THEN NoIndex
  ELSE localIndex

computeGlobalMatchIndex(r, uri, localIndex) ==
  IF localIndex = NoIndex \/ localIndex <= 0 THEN NoIndex
  ELSE GlobalOffset(r.statsByDocument, SortUris(DOMAIN r.statsByDocument), uri, localIndex)

\* a variant that gives the position of the match in the global order
getLocalIndexForMatchGlobal(r, uri, range) ==
  IF uri \notin DOMAIN r.statsByDocument THEN NoIndex
  ELSE FindIndex(getOrderedMatches(r), [uri |-> uri, range |-> range])

getLocalIndexForMatch(r, uri, range) ==
  IF uri \notin DOMAIN r.statsByDocument THEN NoIndex
  ELSE FindIndex(r.statsByDocument[uri].ranges, range)

\* a variant that prefers the last-known index of the supplied document to
\* the live selection of the active editor
NavCurrentIndexSuppliedFirst(r, H, uri) ==
  LET fromActive ==
        IF H.active /= NoDoc /\ H.active \in DOMAIN r.statsByDocument
        THEN computeGlobalMatchIndex(r, H.active,
               computeSelectionMatchIndex(H.selection[H.active],
                                          r.statsByDocument[H.active].ranges))
        ELSE NoIndex
      fromUri ==
        IF uri /= NoDoc
        THEN computeGlobalMatchIndex(r, uri,
               IF uri \in DOMAIN r.statsByDocument
               THEN r.statsByDocument[uri].currentMatchIndex ELSE NoIndex)
        ELSE NoIndex
  IN IF fromUri > 0 THEN fromUri - 1
     ELSE IF fromActive > 0 THEN fromActive - 1
     ELSE IF r.globalMatchIndex > 0 THEN r.globalMatchIndex - 1
     ELSE NoCurrent

\* the current index of navigateToMatch, 0-based, NoCurrent for null
NavCurrentIndex(r, H, uri) ==
  LET fromActive ==
        IF H.active /= NoDoc /\ H.active \in DOMAIN r.statsByDocument
        THEN computeGlobalMatchIndex(r, H.active,
               computeSelectionMatchIndex(H.selection[H.active],
                                          r.statsByDocument[H.active].ranges))
        ELSE NoIndex
      fromUri ==
        IF uri /= NoDoc
        THEN computeGlobalMatchIndex(r, uri,
               IF uri \in DOMAIN r.statsByDocument
               THEN r.statsByDocument[uri].currentMatchIndex ELSE NoIndex)
        ELSE NoIndex
  IN IF fromActive > 0 THEN fromActive - 1
     ELSE IF fromUri > 0 THEN fromUri - 1
     ELSE IF r.globalMatchIndex > 0 THEN r.globalMatchIndex - 1
     ELSE NoCurrent

\* the target index with no current index taken as the first match
NavTargetIndexFromFirst(currentIndex, direction, n) ==
  LET c == IF currentIndex = NoCurrent THEN 0 ELSE currentIndex IN
  IF direction = "next" THEN (c + 1) % n ELSE (c - 1 + n) % n

\* the target index without the wrap at either end
NavTargetIndexNoWrap(currentIndex, direction, n) ==
  IF direction = "next"
  THEN IF currentIndex = NoCurrent THEN 0
       ELSE IF currentIndex + 1 >= n THEN n - 1 ELSE currentIndex + 1
  ELSE IF currentIndex = NoCurrent THEN n - 1
       ELSE IF currentIndex = 0 THEN 0 ELSE currentIndex - 1

NavTargetIndex(currentIndex, direction, n) ==
  IF direction = "next"
  THEN IF currentIndex = NoCurrent THEN 0 ELSE (currentIndex + 1) % n
  ELSE IF currentIndex = NoCurrent THEN n - 1 ELSE (currentIndex - 1 + n) % n

\* navigateToMatch that goes on to the await of openTextDocument also when
\* there are no matches
NavTargetUnchecked(S, H, t) ==
  LET r == S.rules[t.rule]
      matches == getOrderedMatches(r)
      currentIndex == NavCurrentIndex(r, H, t.doc)
  IN IF matches = <<>>
     THEN [t EXCEPT !.phase = "open", !.target = 0, !.cur = currentIndex]
     ELSE LET targetIndex == NavTargetIndex(currentIndex, t.dir, Len(matches)) IN
          [t EXCEPT !.phase = "open", !.target = targetIndex,
                    !.cur = currentIndex, !.count = Len(matches),
                    !.doc = matches[targetIndex + 1].uri,
                    !.range = matches[targetIndex + 1].range]

\* navigateToMatch from getOrderedMatches to the await of openTextDocument:
\* the task that awaits, or NoTask when there are no matches
NavTarget(S, H, t) ==
  LET r == S.rules[t.rule]
      matches == getOrderedMatches(r)
      currentIndex == NavCurrentIndex(r, H, t.doc)
      targetIndex == NavTargetIndex(currentIndex, t.dir, Len(matches))
  IN IF matches = <<>> THEN NoTask
     ELSE [t EXCEPT !.phase = "open", !.target = targetIndex,
                    !.cur = currentIndex, !.count = Len(matches),
                    !.doc = matches[targetIndex + 1].uri,
                    !.range = matches[targetIndex + 1].range]

Navigate(uri, ruleId, direction) ==
  /\ Idle /\ budget > 0
  /\ Cardinality(tasks) < MaxTasks
  /\ LET t == [NoTask EXCEPT !.kind = "navigateToMatch", !.rule = ruleId,
                             !.doc = uri, !.dir = direction,
                             !.overlap = \E u \in tasks : u.kind = "navigateToMatch"]
     IN IF ruleId \notin ruleIndex
        THEN /\ UNCHANGED <<storeVars, tasks>>
             /\ Record("navigateToMatch", ruleId, <<>>, Refused)
        ELSE IF rules[ruleId].scope = "document"
        THEN /\ tasks' = tasks \cup ({NavTarget(Cur, Host, t)} \ {NoTask})
             /\ UNCHANGED storeVars
             /\ IF NavTarget(Cur, Host, t) = NoTask
                THEN Record("navigateToMatch", ruleId, <<>>, Refused)
                ELSE UNCHANGED <<log, last>>
        ELSE LET S == scheduleScopeScan(Cur, ruleId, 0) IN
             /\ Commit(S)
             /\ tasks' = tasks \cup
                  {[t EXCEPT !.phase = "scan", !.sid = S.pendingScopeScans[ruleId]]}
             /\ UNCHANGED <<log, last>>
  /\ UNCHANGED hostVars
  /\ Spend

\* the awaited scan has ended: the call runs on in the same turn
NavAfterScan(t) ==
  /\ t \in tasks /\ Resumable(t)
  /\ tasks' = (tasks \ {t}) \cup ({NavTarget(Cur, Host, t)} \ {NoTask})
  /\ IF NavTarget(Cur, Host, t) = NoTask
     THEN Returned("navigateToMatch", t.rule, <<>>, Refused)
     ELSE Silent
  /\ UNCHANGED <<storeVars, hostVars>>

\* openTextDocument and showTextDocument settle: the target is shown
NavShown(t, ok) ==
  /\ Idle
  /\ t \in tasks /\ t.kind = "navigateToMatch" /\ t.phase = "open"
  /\ tasks' = tasks \ {t}
  /\ IF ~ok THEN /\ UNCHANGED <<storeVars, hostVars>>
                 /\ Returned("navigateToMatch", t.rule, <<>>, Refused)
     ELSE LET H == [Host EXCEPT !.visible = @ \cup {t.doc}, !.active = t.doc]
              S1 == applyRules(Cur, H, t.doc)
              localIndex == getLocalIndexForMatch(S1.rules[t.rule], t.doc, t.range)
              S2 == getOrCreateStats(S1, t.rule, t.doc)
              S == [S2 EXCEPT
                     !.rules[t.rule].statsByDocument[t.doc].currentMatchIndex = localIndex,
                     !.rules[t.rule].globalMatchIndex = t.target + 1,
                     !.ret = TRUE, !.fired = TRUE]
          IN /\ Commit(S)
             /\ Landed(t, S)
             /\ visible' = H.visible
             /\ active' = t.doc
             /\ selection' = [selection EXCEPT ![t.doc] = t.range]
             /\ text' = text

(***************************************************************************)
(* Host events: the handlers the constructor subscribes.  Documents are    *)
(* open in the host whether or not an editor shows them (scans and other   *)
(* extensions open them), so an event may name a document that is not      *)
(* visible.                                                                *)
(***************************************************************************)
\* the selections the host reports and the texts an edit leaves
Selections == {<<0, 0>>, <<1, 2>>, <<2, 2>>}
EditedTexts == {<<"a">>, <<"e", "a", "a">>}
EventDocs == Docs

updateCurrentMatchIndicesForEditor(S, H, d, sel) ==
  LET ids == getRulesForUri(S, d)
      Stats(id) ==
        LET stats == IF d \in DOMAIN S.rules[id].statsByDocument
                     THEN S.rules[id].statsByDocument[d] ELSE EmptyStats
        IN IF stats.ranges = <<>> /\ stats.matchCount > 0
           THEN LET ranges == findMatches(H.text[d], S.rules[id])
                IN [stats EXCEPT !.ranges = ranges, !.matchCount = Len(ranges)]
           ELSE stats
      Index(id) == computeSelectionMatchIndex(sel, Stats(id).ranges)
      WithIndex(id) ==
        [S.rules[id] EXCEPT !.statsByDocument =
           MapPut(@, d, [Stats(id) EXCEPT !.currentMatchIndex = Index(id)])]
      GlobalIndex(id) == computeGlobalMatchIndex(WithIndex(id), d, Index(id))
      changed == \E id \in ids : \/ Stats(id).currentMatchIndex /= Index(id)
                                 \/ S.rules[id].globalMatchIndex /= GlobalIndex(id)
  IN [S EXCEPT
        !.rules = [id \in DOMAIN @ |->
           IF id \in ids THEN [WithIndex(id) EXCEPT !.globalMatchIndex = GlobalIndex(id)]
           ELSE @[id]],
        !.fired = @ \/ changed]

updateDecorationsForUri(S, H, d) ==
  IF d \in H.visible THEN applyRules(S, H, d) ELSE S

\* clearDocumentState that drops the document-scoped rules of the document
clearDocumentStateDropRules(S, d) ==
  LET appliedRuleIds == IF d \in DOMAIN S.documentRuleIds THEN S.documentRuleIds[d] ELSE {}
      dropped == {id \in appliedRuleIds \cap S.ruleIndex : S.rules[id].scope = "document"}
  IN IF appliedRuleIds = {} THEN S
     ELSE [S EXCEPT
        !.rules = [id \in DOMAIN @ |->
           IF id \notin appliedRuleIds \/ id \notin S.ruleIndex THEN @[id]
           ELSE IF @[id].scope = "document"
             THEN [@[id] EXCEPT !.statsByDocument = MapDel(@, d)]
           ELSE IF d \in DOMAIN @[id].statsByDocument
             THEN [@[id] EXCEPT !.statsByDocument[d].currentMatchIndex = NoIndex]
           ELSE @[id]],
        !.ruleIndex = @ \ dropped,
        !.documentRuleIds = MapDel(@, d)]

\* clearDocumentState that drops the stats of the document for every scope
clearDocumentStateAllScopes(S, d) ==
  LET appliedRuleIds == IF d \in DOMAIN S.documentRuleIds THEN S.documentRuleIds[d] ELSE {}
  IN IF appliedRuleIds = {} THEN S
     ELSE [S EXCEPT
        !.rules = [id \in DOMAIN @ |->
           IF id \notin appliedRuleIds \/ id \notin S.ruleIndex THEN @[id]
           ELSE [@[id] EXCEPT !.statsByDocument = MapDel(@, d)]],
        !.documentRuleIds = MapDel(@, d)]

clearDocumentState(S, d) ==
  LET appliedRuleIds == IF d \in DOMAIN S.documentRuleIds THEN S.documentRuleIds[d] ELSE {}
  IN IF appliedRuleIds = {} THEN S
     ELSE [S EXCEPT
        !.rules = [id \in DOMAIN @ |->
           IF id \notin appliedRuleIds \/ id \notin S.ruleIndex THEN @[id]
           ELSE IF @[id].scope = "document"
             THEN [@[id] EXCEPT !.statsByDocument = MapDel(@, d)]
           ELSE IF d \in DOMAIN @[id].statsByDocument
             THEN [@[id] EXCEPT !.statsByDocument[d].currentMatchIndex = NoIndex]
           ELSE @[id]],
        !.documentRuleIds = MapDel(@, d)]

onDidChangeTextDocument(S, H, d) ==
  IF getRulesForUri(S, d) /= {}
  THEN [updateDecorationsForUri(S, H, d) EXCEPT !.fired = TRUE]
  ELSE S

onDidChangeActiveTextEditor(S, H, e) ==
  IF e /= NoDoc
  THEN [updateCurrentMatchIndicesForEditor(applyRules(S, H, e), H, e, H.selection[e])
          EXCEPT !.fired = TRUE]
  ELSE [S EXCEPT !.fired = TRUE]

\* an edit leaves document d with the text newText
DocumentChanged(d, newText) ==
  /\ Idle /\ budget > 0
  /\ newText /= text[d]
  /\ text' = [text EXCEPT ![d] = newText]
  /\ LET S == onDidChangeTextDocument(Cur, [Host EXCEPT !.text = text'], d) IN
       Commit(S) /\ Record("documentChanged", 0, d, S)
  /\ UNCHANGED <<tasks, visible, active, selection>>
  /\ Spend

\* the active editor becomes an editor of document e (which may be another
\* editor of the document that was active), or none (NoDoc)
ActiveEditorChanged(e) ==
  /\ Idle /\ budget > 0
  /\ e = NoDoc => active /= NoDoc
  /\ active' = e
  /\ visible' = IF e = NoDoc THEN visible ELSE visible \cup {e}
  /\ LET S == onDidChangeActiveTextEditor(
                Cur, [Host EXCEPT !.active = e, !.visible = visible'], e) IN
       Commit(S) /\ Record("activeEditorChanged", 0, e, S)
  /\ UNCHANGED <<tasks, selection, text>>
  /\ Spend

\* an editor that is not the active one goes away: no subscribed event
EditorHidden(d) ==
  /\ Idle
  /\ d \in visible /\ d /= active
  /\ visible' = visible \ {d}
  /\ UNCHANGED <<storeVars, tasks, active, selection, text>>
  /\ Silent

\* the editor of document d reports the selection sel
SelectionChanged(d, sel) ==
  /\ Idle /\ budget > 0
  /\ d \in visible
  /\ selection' = [selection EXCEPT ![d] = sel]
  /\ LET S == updateCurrentMatchIndicesForEditor(
                Cur, [Host EXCEPT !.selection = selection'], d, sel) IN
       Commit(S) /\ Record("selectionChanged", 0, d, S)
  /\ UNCHANGED <<tasks, visible, active, text>>
  /\ Spend

\* the host reports the active editor that navigateToMatch has shown
EditorEcho(d) ==
  /\ Idle
  /\ d = active
  /\ Commit(onDidChangeActiveTextEditor(Cur, Host, d))
  /\ UNCHANGED <<tasks, hostVars>>
  /\ Silent

\* the host reports the selection that navigateToMatch has set
SelectionEcho(d) ==
  /\ Idle
  /\ d = active /\ d \in visible
  /\ Commit(updateCurrentMatchIndicesForEditor(Cur, Host, d, selection[d]))
  /\ UNCHANGED <<tasks, hostVars>>
  /\ Silent

\* the host closes document d
DocumentClosed(d) ==
  /\ Idle /\ budget > 0
  /\ LET S == clearDocumentState(Cur, d) IN
       Commit(S) /\ Record("documentClosed", 0, d, S)
  /\ UNCHANGED <<tasks, hostVars>>
  /\ Spend

\* navigateToMatch asks for the global order of the matches of a rule
GetOrderedMatches(id) ==
  /\ Idle /\ budget > 0
  /\ id \in ruleIndex
  /\ Record("getOrderedMatches", id, getOrderedMatches(rules[id]), Refused)
  /\ UNCHANGED <<storeVars, tasks, hostVars>>
  /\ Spend

InitWith(b, logged) ==
  /\ rules = <<>>
  /\ ruleIndex = {}
  /\ rulesByScope = EmptyMap
  /\ documentRuleIds = EmptyMap
  /\ pendingScopeScans = EmptyMap
  /\ pendingScopeRescanRuleIds = {}
  /\ scans = {}
  /\ nextScan = 1
  /\ disposed = <<>>
  /\ lastScan = EmptyMap
  /\ scopeChanged = {}
  /\ tasks = {}
  /\ visible = {DocB}
  /\ active = DocB
  /\ selection = [d \in Docs |-> <<0, 0>>]
  /\ text = [d \in Docs |-> TextOf(d)]
  /\ budget = b
  /\ log = logged
  /\ last = [op |-> "init", rule |-> 0, arg |-> <<>>, ret |-> FALSE,
             fired |-> FALSE, n |-> 0, nav |-> <<>>]

Init == InitWith(MaxCalls, FALSE)

Next ==
  \/ \E d \in Docs, o \in CreateInputs : Create(d, o)
  \/ \E id \in RuleIds : DeleteRule(id)
  \/ \E id \in RuleIds, p \in UpdatePatterns : UpdateRulePattern(id, p)
  \/ \E id \in RuleIds, k \in OptionKeys : ToggleRuleOption(id, k)
  \/ \E id \in RuleIds, c \in UpdateColors : UpdateRuleColor(id, c)
  \/ \E id \in RuleIds, sc \in Scopes, d \in Docs : ChangeRuleScope(id, sc, d)
  \/ \E t \in tasks, ok \in BOOLEAN : ChangeRuleScopeResume(t, ok)
  \/ \E k \in DOMAIN rulesByScope : ClearHighlights(k)
  \/ \E t \in tasks : ClearHighlightsResume(t)
  \/ \E id \in RuleIds : RemoveHighlightRule(id)
  \/ \E t \in tasks : RemoveHighlightRuleResume(t)
  \/ \E d \in Docs, id \in RuleIds, dir \in {"next", "previous"} : Navigate(d, id, dir)
  \/ \E t \in tasks : NavAfterScan(t)
  \/ \E t \in tasks, ok \in BOOLEAN : NavShown(t, ok)
  \/ \E s \in scans, ok \in BOOLEAN : ScanCollected(s, ok)
  \/ \E s \in scans, ok \in BOOLEAN : ScanFileRead(s, ok)

Spec == Init /\ [][Next]_vars

\* The rule store: create, recolor, move, remove and clear, and the scans.
InitStore == InitWith(MaxStoreCalls, FALSE)

NextStore ==
  \/ \E d \in Docs, o \in StoreInputs : Create(d, o)
  \/ \E id \in RuleIds : DeleteRule(id)
  \/ \E id \in RuleIds, c \in UpdateColors : UpdateRuleColor(id, c)
  \/ \E id \in RuleIds, sc \in Scopes, d \in Docs : ChangeRuleScope(id, sc, d)
  \/ \E t \in tasks, ok \in BOOLEAN : ChangeRuleScopeResume(t, ok)
  \/ \E k \in DOMAIN rulesByScope : ClearHighlights(k)
  \/ \E t \in tasks : ClearHighlightsResume(t)
  \/ \E id \in RuleIds : RemoveHighlightRule(id)
  \/ \E t \in tasks : RemoveHighlightRuleResume(t)
  \/ \E s \in scans, ok \in BOOLEAN : ScanCollected(s, ok)
  \/ \E s \in scans, ok \in BOOLEAN : ScanFileRead(s, ok)

SpecStore == InitStore /\ [][NextStore]_vars

\* The calls that validate their input, with what each returned kept in last.
InitCalls == InitWith(MaxLoggedCalls, TRUE)

NextCalls ==
  \/ \E d \in Docs, o \in CreateInputs : Create(d, o)
  \/ \E id \in RuleIds, p \in UpdatePatterns : UpdateRulePattern(id, p)
  \/ \E id \in RuleIds, k \in OptionKeys : ToggleRuleOption(id, k)
  \/ \E id \in RuleIds, c \in UpdateColors : UpdateRuleColor(id, c)
  \/ \E s \in scans, ok \in BOOLEAN : ScanCollected(s, ok)
  \/ \E s \in scans, ok \in BOOLEAN : ScanFileRead(s, ok)

SpecCalls == InitCalls /\ [][NextCalls]_vars

\* The calls that create, move and delete rules, with what each returned kept
\* in last.
ScopeInputs ==
  {o \in CreateInputs : o.pattern \in {ValidPattern, ParenPattern} /\ o.color = <<"r">>
                                                                  /\ ~o.useRegex}

InitScope == InitWith(MaxScopeCalls, TRUE)

NextScope ==
  \/ \E d \in Docs, o \in ScopeInputs : Create(d, o)
  \/ \E id \in RuleIds : DeleteRule(id)
  \/ \E id \in RuleIds, sc \in Scopes, d \in Docs : ChangeRuleScope(id, sc, d)
  \/ \E t \in tasks, ok \in BOOLEAN : ChangeRuleScopeResume(t, ok)
  \/ \E s \in scans, ok \in BOOLEAN : ScanCollected(s, ok)
  \/ \E s \in scans, ok \in BOOLEAN : ScanFileRead(s, ok)

SpecScope == InitScope /\ [][NextScope]_vars

\* The global order of the matches of the rules stored over files whose texts
\* are drawn from OrderTexts, with the order kept in last; the file shown is
\* DocA, whose folder holds both files.
OrderTexts == {<<"a", " ", "a", "e">>, <<"a", "A", "a">>, <<"e">>}

InitOrder ==
  /\ rules = <<>>
  /\ ruleIndex = {}
  /\ rulesByScope = EmptyMap
  /\ documentRuleIds = EmptyMap
  /\ pendingScopeScans = EmptyMap
  /\ pendingScopeRescanRuleIds = {}
  /\ scans = {}
  /\ nextScan = 1
  /\ disposed = <<>>
  /\ lastScan = EmptyMap
  /\ scopeChanged = {}
  /\ tasks = {}
  /\ visible = {DocA}
  /\ active = DocA
  /\ selection = [d \in Docs |-> <<0, 0>>]
  /\ text \in [Docs -> OrderTexts]
  /\ budget = MaxOrderCalls
  /\ log = TRUE
  /\ last = [op |-> "init", rule |-> 0, arg |-> <<>>, ret |-> FALSE,
             fired |-> FALSE, n |-> 0, nav |-> <<>>]

NextOrder ==
  \/ \E d \in Docs, o \in StoreInputs : Create(d, o)
  \/ \E id \in RuleIds : GetOrderedMatches(id)
  \/ \E s \in scans, ok \in BOOLEAN : ScanCollected(s, ok)
  \/ \E s \in scans, ok \in BOOLEAN : ScanFileRead(s, ok)

SpecOrder == InitOrder /\ [][NextOrder]_vars

\* navigateToMatch on one rule stored over files whose texts are drawn from
\* NavTexts, called from the panel of the active document, with where each
\* call landed kept in last.nav; the host reports the editor and the selection
\* that a call has set, and the files can be enumerated and read.
NavTexts == {<<"e", " ", "a", " ", "a">>, <<"e", "a", "A", "a">>}

InitNavigateWith(texts, b) ==
  /\ rules = <<>>
  /\ ruleIndex = {}
  /\ rulesByScope = EmptyMap
  /\ documentRuleIds = EmptyMap
  /\ pendingScopeScans = EmptyMap
  /\ pendingScopeRescanRuleIds = {}
  /\ scans = {}
  /\ nextScan = 1
  /\ disposed = <<>>
  /\ lastScan = EmptyMap
  /\ scopeChanged = {}
  /\ tasks = {}
  /\ visible = {DocA}
  /\ active = DocA
  /\ selection = [d \in Docs |-> <<0, 0>>]
  /\ text \in [Docs -> texts]
  /\ budget = b
  /\ log = TRUE
  /\ last = [op |-> "init", rule |-> 0, arg |-> <<>>, ret |-> FALSE,
             fired |-> FALSE, n |-> 0, nav |-> <<>>]

InitNavigate == InitNavigateWith(NavTexts, MaxNavCalls)

NextNavigate ==
  \/ \E d \in Docs, o \in StoreInputs : rules = <<>> /\ Create(d, o)
  \/ \E id \in ruleIndex, dir \in {"next", "previous"} : Navigate(active, id, dir)
  \/ \E t \in tasks : NavAfterScan(t)
  \/ \E t \in tasks, ok \in BOOLEAN : NavShown(t, ok)
  \/ \E d \in Docs : EditorEcho(d)
  \/ \E d \in Docs : SelectionEcho(d)
  \/ \E s \in scans : ScanCollected(s, TRUE)
  \/ \E s \in scans : ScanFileRead(s, TRUE)

SpecNavigate == InitNavigate /\ [][NextNavigate]_vars

\* The same calls over files of which some, or all, hold no match of the rule.
MaxNavNoneCalls == 4

NavNoneTexts == {<<"e">>, <<"e", "a">>}

InitNavigateNone == InitNavigateWith(NavNoneTexts, MaxNavNoneCalls)

SpecNavigateNone == InitNavigateNone /\ [][NextNavigate]_vars

\* The host's events on the rules that Create has stored, with what each
\* handler returned and whether it notified kept in last.
InitEvents == InitWith(MaxEventCalls, TRUE)

NextEvents ==
  \/ \E d \in Docs, o \in StoreInputs : Create(d, o)
  \/ \E d \in EventDocs, x \in EditedTexts : DocumentChanged(d, x)
  \/ \E e \in Docs \cup {NoDoc} : ActiveEditorChanged(e)
  \/ \E d \in Docs : EditorHidden(d)
  \/ \E d \in Docs, sel \in Selections : SelectionChanged(d, sel)
  \/ \E d \in EventDocs : DocumentClosed(d)
  \/ \E s \in scans, ok \in BOOLEAN : ScanCollected(s, ok)
  \/ \E s \in scans, ok \in BOOLEAN : ScanFileRead(s, ok)

SpecEvents == InitEvents /\ [][NextEvents]_vars

(***************************************************************************)
(* Properties.                                                             *)
(***************************************************************************)
ScansOf(id) == {s \in scans : s.rule = id}

\* C1: at every reachable state at most one scope scan is in flight for any
\* rule id, whatever the interleaving of calls and scan steps.
C1_OneScanPerRule ==
  \A id \in DOMAIN rules : Cardinality(ScansOf(id)) <= 1

\* a scan is in flight and a request made meanwhile has been coalesced
C1_Witness ==
  \E s \in scans : s.requests >= 1 /\ s.rule \in pendingScopeRescanRuleIds

\* the scan s ends in this step
ScanEnds(s) == s \in scans /\ \A t \in scans' : t.sid /= s.sid

\* the scans of the rule of s that this step starts
StartedAfter(s) == {t \in scans' : t.rule = s.rule /\ t \notin scans}

\* C2 as stated: when a scan ends during which scheduleScopeScan was requested
\* k >= 1 times for its (then folder-scoped) rule, exactly one further scan of
\* the rule starts and no request stays queued.
C2_ExactlyOneRescan ==
  [][\A s \in scans : (ScanEnds(s) /\ s.requests >= 1) =>
        /\ Cardinality(StartedAfter(s)) = 1
        /\ s.rule \notin pendingScopeRescanRuleIds']_vars

\* C2, amended: when such a scan ends, exactly one further scan of the rule
\* starts if the rule is still folder-scoped at that moment and none if its
\* scope has become document meanwhile; in both cases no request stays queued
\* and the scan started has no request coalesced on it yet.
C2_RescanWhileFolderScoped ==
  [][\A s \in scans : (ScanEnds(s) /\ s.requests >= 1) =>
        /\ s.rule \notin pendingScopeRescanRuleIds'
        /\ IF rules[s.rule].scope = "document"
           THEN StartedAfter(s) = {}
           ELSE /\ Cardinality(StartedAfter(s)) = 1
                /\ \A t \in StartedAfter(s) : t.after = s.sid /\ t.requests = 0]_vars

\* a scan started by the finally() of the scan before it is in flight
C2_Witness ==
  \E s \in scans : s.after /= 0 /\ rules[s.rule].scope /= "document"

\* where the rule id sits in the buckets: <<key, position>>
BucketSlots(id) ==
  {p \in UNION {{<<k, i>> : i \in DOMAIN rulesByScope[k]} : k \in DOMAIN rulesByScope} :
     rulesByScope[p[1]][p[2]] = id}

\* C3 as stated: every rule of the index is in exactly one bucket, once, under
\* the key of its (scope, targetUri), and the buckets hold no other rule.
C3_StoreConsistent ==
  /\ \A id \in ruleIndex :
       /\ Cardinality(BucketSlots(id)) = 1
       /\ \A p \in BucketSlots(id) :
            p[1] = createScopeKey(rules[id].scope, rules[id].targetUri)
  /\ \A id \in DOMAIN rules : BucketSlots(id) /= {} => id \in ruleIndex

\* C4 as stated: a rule that changeRuleScope has moved holds cached stats for
\* no document outside its (scope, targetUri).
C4_StatsWithinScope ==
  \A id \in scopeChanged \cap ruleIndex :
    \A d \in DOMAIN rules[id].statsByDocument :
      doesScopeApplyToDocument(rules[id].scope, rules[id].targetUri, d)

\* no scan of the rule is in flight or requested
Quiescent(id) ==
  /\ ScansOf(id) = {}
  /\ id \notin DOMAIN pendingScopeScans
  /\ id \notin pendingScopeRescanRuleIds

\* the files a scan of the rule would enumerate and keep now
EnumeratedFiles(id) ==
  LET uris == collectUrisForRuleScope(rules[id].scope, rules[id].targetUri)
  IN {uris[i] : i \in {j \in DOMAIN uris : isFileIncluded(rules[id], uris[j])}}

\* the cached stats of the rule for d are the matches of its pattern in d
StatsCurrent(id, d) ==
  LET ranges == findMatches(text[d], rules[id])
      cache == rules[id].statsByDocument
  IN IF d \in DOMAIN cache
     THEN cache[d].ranges = ranges /\ cache[d].matchCount = Len(ranges)
     ELSE ranges = <<>>

\* C5 as stated: for a folder-scoped rule with no scan in flight or pending,
\* the cached stats of every enumerated file are the matches of the rule's
\* current pattern and options.
C5_AllEnumeratedCurrent ==
  \A id \in ruleIndex :
    (rules[id].scope /= "document" /\ Quiescent(id)) =>
      \A d \in EnumeratedFiles(id) : StatsCurrent(id, d)

\* C5, amended: for a folder-scoped rule with no scan in flight or pending,
\* the cached stats of every enumerated file that the rule's last ended scan
\* read successfully are the matches of the rule's current pattern and options
\* (file contents held fixed).
C5_ReadFilesCurrent ==
  \A id \in ruleIndex :
    (rules[id].scope /= "document" /\ Quiescent(id) /\ id \in DOMAIN lastScan) =>
      \A d \in EnumeratedFiles(id) \cap lastScan[id].read : StatsCurrent(id, d)

\* an edited folder rule at rest whose last scan was a rescan that read a file
C5_Witness ==
  \E id \in ruleIndex :
    /\ rules[id].scope /= "document" /\ Quiescent(id)
    /\ rules[id].pattern = OtherPattern
    /\ id \in DOMAIN lastScan
    /\ lastScan[id].after /= 0
    /\ EnumeratedFiles(id) \cap lastScan[id].read /= {}

\* C6 as stated: a decoration handle held by a rule of the store is not
\* disposed, and every other handle ever created is disposed exactly once.
C6_DisposedOnce ==
  \A h \in DOMAIN disposed :
    disposed[h] = IF \E id \in ruleIndex : rules[id].decoration = h THEN 0 ELSE 1

\* C7: at every reachable state no bucket of rulesByScope is empty.
C7_NoEmptyBucket ==
  \A k \in DOMAIN rulesByScope : rulesByScope[k] /= <<>>

\* the only rule has been moved to another scope: the bucket it left is gone
C7_Witness ==
  /\ Len(rules) = 1 /\ 1 \in ruleIndex /\ 1 \in scopeChanged
  /\ DOMAIN rulesByScope = {createScopeKey(rules[1].scope, rules[1].targetUri)}

\* a call returned in this step (last.n counts the records)
Called(op) == last'.n /= last.n /\ last'.op = op

\* the call left the controller and the editors as they were
NothingChanged == UNCHANGED <<storeVars, tasks, hostVars>>

\* C8: a toggleRuleOption whose new option value makes the rule's pattern fail
\* to compile fails and leaves the rule, the scans and the cached stats as
\* they were.
C8_ToggleRollback ==
  [][\A id \in ruleIndex, option \in OptionKeys :
       (/\ Called("toggleRuleOption") /\ last'.rule = id /\ last'.arg = option
        /\ LET r == [rules[id] EXCEPT ![option] = ~@]
           IN r.useRegex /\ ~buildRegExp(r, r.pattern).ok)
       => (~last'.ret /\ NothingChanged)]_vars

\* the toggle of useRegex on a literal "(" has just been refused
C8_Witness ==
  /\ last.op = "toggleRuleOption" /\ last.arg = "useRegex" /\ ~last.ret
  /\ last.rule \in ruleIndex
  /\ rules[last.rule].pattern = ParenPattern /\ ~rules[last.rule].useRegex

\* C9: updateRulePattern with a pattern that is empty after trimming or does
\* not compile under the rule's options, and updateRuleColor with an empty
\* color, return false and leave the rule, its decoration, its cached stats
\* and the scans as they were.
C9_RejectedUpdate ==
  [][\A id \in ruleIndex :
       /\ (/\ Called("updateRulePattern") /\ last'.rule = id
           /\ \/ Trim(last'.arg) = <<>>
              \/ ~buildRegExp(rules[id], Trim(last'.arg)).ok)
          => (~last'.ret /\ NothingChanged)
       /\ (Called("updateRuleColor") /\ last'.rule = id /\ Trim(last'.arg) = <<>>)
          => (~last'.ret /\ NothingChanged)]_vars

\* a pattern that does not compile has just been refused for a regex rule
C9_Witness ==
  /\ last.op = "updateRulePattern" /\ last.arg = ParenPattern /\ ~last.ret
  /\ last.rule \in ruleIndex
  /\ rules[last.rule].useRegex /\ rules[last.rule].pattern = ValidPattern

\* the draft of a create request is rejected
InvalidDraft(o) ==
  \/ Trim(o.pattern) = <<>>
  \/ Trim(o.color) = <<>>
  \/ o.useRegex /\ ~RegExpOf(Trim(o.pattern)).ok

\* C10: a create request with an empty pattern, an empty color, or useRegex
\* and a pattern that does not compile inserts nothing, schedules no scan, and
\* the decoration it may have allocated is disposed.
C10_RejectedCreate ==
  [][(Called("create") /\ InvalidDraft(last'.arg)) =>
       /\ ~last'.ret
       /\ UNCHANGED <<rules, ruleIndex, rulesByScope, documentRuleIds, pendingScopeScans,
                      pendingScopeRescanRuleIds, scans, nextScan, lastScan, scopeChanged,
                      tasks, hostVars>>
       /\ \/ disposed' = disposed
          \/ disposed' = Append(disposed, 1)]_vars

\* a regex draft that does not compile has just been rejected, its decoration
\* disposed
C10_Witness ==
  /\ last.op = "create" /\ ~last.ret
  /\ last.arg.useRegex /\ last.arg.pattern = ParenPattern /\ last.arg.color /= <<>>
  /\ disposed /= <<>> /\ disposed[Len(disposed)] = 1

\* the scope that changeRuleScope(id, scope, doc) resolves is the one the rule has
SameScope(id, scope, doc) ==
  LET scopeInfo == resolveScopeForDocument(doc, scope) IN
  scopeInfo.scope = rules[id].scope /\ scopeInfo.targetUri = rules[id].targetUri

\* C11: a changeRuleScope whose resolved scope and target are the ones the rule
\* has returns false and changes nothing: the buckets, the cached stats, the
\* global index and the scans stay as they were and no scan is scheduled.
C11_SameScopeNoOp ==
  [][\A id \in DOMAIN rules :
       (/\ Called("changeRuleScope") /\ last'.rule = id
        /\ SameScope(id, last'.arg[1], last'.arg[2]))
       => (~last'.ret /\ ~last'.fired /\ UNCHANGED <<storeVars, hostVars>>)]_vars

\* a changeRuleScope to the scope the rule has, from a shown document, has
\* just returned false
C11_Witness ==
  /\ last.op = "changeRuleScope" /\ ~last.ret
  /\ last.rule \in ruleIndex
  /\ last.arg[2] \in visible
  /\ SameScope(last.rule, last.arg[1], last.arg[2])
  /\ rules[last.rule].statsByDocument /= EmptyMap

\* C12: deleteRule(ruleId) returns true exactly when ruleId is in the store;
\* afterwards the id is in no index, no scope bucket and no document's set of
\* applied rules, and the rule holds no per-document stats.  For an unknown id
\* it returns false and the state is unchanged.
C12_DeleteRule ==
  [][Called("deleteRule") =>
       LET id == last'.rule IN
       /\ last'.ret = (id \in ruleIndex)
       /\ last'.ret =>
            /\ id \notin ruleIndex'
            /\ \A k \in DOMAIN rulesByScope' :
                 \A i \in DOMAIN rulesByScope'[k] : rulesByScope'[k][i] /= id
            /\ \A d \in DOMAIN documentRuleIds' : id \notin documentRuleIds'[d]
            /\ rules'[id].statsByDocument = EmptyMap
       /\ ~last'.ret => NothingChanged]_vars

\* a rule without what it caches per document
RuleProper(r) == [r EXCEPT !.statsByDocument = EmptyMap, !.globalMatchIndex = NoIndex]

\* the rule is stored, its scope covers document d and its filter includes it
AppliesTo(id, d) ==
  /\ id \in ruleIndex
  /\ doesScopeApplyToDocument(rules[id].scope, rules[id].targetUri, d)
  /\ isFileIncluded(rules[id], d)

\* C13: a document-closed event deletes and alters no rule: the buckets, the
\* index and every rule's pattern, color, options, scope, target and decoration
\* stay as they were, also for a document-scoped rule of the closed document;
\* when the document is shown again its rules are applied to it again.
C13_CloseKeepsRules ==
  [][/\ Called("documentClosed") =>
          /\ UNCHANGED <<ruleIndex, rulesByScope, disposed>>
          /\ DOMAIN rules' = DOMAIN rules
          /\ \A id \in DOMAIN rules : RuleProper(rules'[id]) = RuleProper(rules[id])
     /\ \A d \in Docs :
          (Called("activeEditorChanged") /\ last'.arg = d) =>
            \A id \in DOMAIN rules : AppliesTo(id, d) =>
              /\ d \in DOMAIN documentRuleIds' /\ id \in documentRuleIds'[d]
              /\ d \in DOMAIN rules'[id].statsByDocument
              /\ rules'[id].statsByDocument[d].ranges = findMatches(text[d], rules[id])]_vars

\* a document has just been closed that a document-scoped rule targets and had
\* been applied to: the rule is stored as before and its stats are gone
C13_Witness ==
  /\ last.op = "documentClosed"
  /\ \E id \in ruleIndex :
       /\ rules[id].scope = "document" /\ rules[id].targetUri = last.arg
       /\ rules[id].statsByDocument = EmptyMap
       /\ last.arg \notin DOMAIN documentRuleIds
       /\ findMatches(text[last.arg], rules[id]) /= <<>>
       /\ last.arg \in visible

\* the rules applied to document d
AppliedTo(d) == IF d \in DOMAIN documentRuleIds THEN documentRuleIds[d] ELSE {}

\* C14 as stated: when a document closes, no rule of any scope holds stats
\* (match count, ranges, current match index) for it any more.
C14_CloseClearsAllStats ==
  [][\A d \in Docs :
       (Called("documentClosed") /\ last'.arg = d) =>
         \A id \in DOMAIN rules : d \notin DOMAIN rules'[id].statsByDocument]_vars

\* C14: when a document closes, every stored rule applied to it loses, if it
\* is document-scoped, its stats for the document and keeps, if it is folder
\* or folderRecursive, its match count and ranges for the document with the
\* current match index cleared; the document's set of applied rules is gone.
C14_CloseClearsByScope ==
  [][\A d \in Docs :
       (Called("documentClosed") /\ last'.arg = d) =>
         /\ d \notin DOMAIN documentRuleIds'
         /\ \A id \in AppliedTo(d) \cap ruleIndex :
              IF rules[id].scope = "document"
              THEN d \notin DOMAIN rules'[id].statsByDocument
              ELSE d \in DOMAIN rules[id].statsByDocument =>
                     /\ d \in DOMAIN rules'[id].statsByDocument
                     /\ rules'[id].statsByDocument[d] =
                          [rules[id].statsByDocument[d] EXCEPT !.currentMatchIndex = NoIndex]]_vars

\* a shown document that a folder-scoped rule matches has just been closed:
\* the rule still holds the matches, and no current match, for it
C14_Witness ==
  /\ last.op = "documentClosed"
  /\ last.arg \in visible /\ last.arg \notin DOMAIN documentRuleIds
  /\ \E id \in ruleIndex :
       /\ rules[id].scope /= "document" /\ AppliesTo(id, last.arg)
       /\ last.arg \in DOMAIN rules[id].statsByDocument
       /\ rules[id].statsByDocument[last.arg].matchCount > 0
       /\ rules[id].statsByDocument[last.arg].currentMatchIndex = NoIndex

\* the rule store with what the rules cache: stats and current indices
RuleStore == <<rules, ruleIndex, rulesByScope>>

\* the step is one of a scope scan that goes on: it notifies when it completes
ScanGoesOn == last'.op = "performScopeScan" /\ \E s \in scans' : s.rule = last'.rule

\* C15: every call or handler that changes the rule store or a rule's cached
\* stats or current indices fires the rules-changed notification after the
\* change (a scope scan when it completes).
C15_MutationNotifies ==
  [][RuleStore' /= RuleStore => (last'.n /= last.n /\ (last'.fired \/ ScanGoesOn))]_vars

\* C16: after a document-changed event for document d has been handled, every
\* rule that holds stats for d holds as match count and ranges what matching
\* its pattern and options against the text of d gives, whether or not d is
\* shown in an editor.
C16_StatsFollowEdits ==
  [][\A d \in Docs :
       (Called("documentChanged") /\ last'.arg = d) =>
         \A id \in ruleIndex' :
           d \in DOMAIN rules'[id].statsByDocument =>
             /\ rules'[id].statsByDocument[d].ranges = findMatches(text'[d], rules'[id])
             /\ rules'[id].statsByDocument[d].matchCount =
                  Len(findMatches(text'[d], rules'[id]))]_vars

\* position k of the list m comes before position k + 1 in the global order
InOrder(m, k) ==
  \/ UriBefore(m[k].uri, m[k + 1].uri)
  \/ /\ m[k].uri = m[k + 1].uri
     /\ \/ m[k].range[1] < m[k + 1].range[1]
        \/ m[k].range[1] = m[k + 1].range[1] /\ m[k].range[2] < m[k + 1].range[2]

\* the list m holds every cached match of the rule r exactly once
EachOnce(m, r) ==
  /\ \A k \in DOMAIN m :
       /\ m[k].uri \in DOMAIN r.statsByDocument
       /\ \E i \in DOMAIN r.statsByDocument[m[k].uri].ranges :
            r.statsByDocument[m[k].uri].ranges[i] = m[k].range
  /\ \A d \in DOMAIN r.statsByDocument :
       \A i \in DOMAIN r.statsByDocument[d].ranges :
         Cardinality({k \in DOMAIN m :
                        m[k] = [uri |-> d, range |-> r.statsByDocument[d].ranges[i]]}) = 1

\* the rule holds 2 matches in DocA and 3 in DocB
TwoAndThree(r) ==
  /\ DOMAIN r.statsByDocument = {DocA, DocB}
  /\ Len(r.statsByDocument[DocA].ranges) = 2
  /\ Len(r.statsByDocument[DocB].ranges) = 3

\* C17: getOrderedMatches lists every cached match of the rule exactly once,
\* by document location (as localeCompare orders the location strings) and
\* then by start and end position; it gives the same list when called again
\* with nothing changed in between; with 2 matches in a and 3 in b (a < b)
\* the list is a#1, a#2, b#1, b#2, b#3.
C17_GlobalOrder ==
  [][Called("getOrderedMatches") =>
       LET m == last'.arg
           r == rules[last'.rule]
       IN /\ EachOnce(m, r)
          /\ \A k \in 1..(Len(m) - 1) : InOrder(m, k)
          /\ (last.op = "getOrderedMatches" /\ last.rule = last'.rule) => m = last.arg
          /\ TwoAndThree(r) =>
               m = [k \in 1..5 |->
                      IF k <= 2
                      THEN [uri |-> DocA, range |-> r.statsByDocument[DocA].ranges[k]]
                      ELSE [uri |-> DocB, range |-> r.statsByDocument[DocB].ranges[k - 2]]]]_vars

\* the order of a rule with 2 matches in DocA and 3 in DocB has just been
\* asked for
C17_Witness ==
  /\ last.op = "getOrderedMatches"
  /\ last.rule \in ruleIndex /\ TwoAndThree(rules[last.rule])
  /\ Len(last.arg) = 5

\* the navigateToMatch calls that have computed their target and await the
\* editor, and those that have shown it
Targeting == {t \in tasks : t.kind = "navigateToMatch" /\ t.phase = "open"}
Landings == {last.nav[k] : k \in DOMAIN last.nav}

\* the target of a call that started from current index c of n matches
TargetAsStated(x) ==
  /\ x.count >= 1
  /\ x.target \in 0..(x.count - 1)
  /\ x.target = IF x.dir = "next"
                THEN IF x.cur = NoCurrent THEN 0 ELSE (x.cur + 1) % x.count
                ELSE IF x.cur = NoCurrent THEN x.count - 1
                     ELSE (x.cur - 1 + x.count) % x.count

\* C18: with N >= 1 matches and current 0-based global index c, navigateToMatch
\* targets (c + 1) mod N for next and (c - 1 + N) mod N for previous; with no
\* current index next targets the first match and previous the last; the
\* target is within 0..N-1.
C18_TargetIndex ==
  /\ \A t \in Targeting : TargetAsStated(t)
  /\ \A x \in Landings : TargetAsStated(x)

\* a next from the last of at least two matches is about to show the first one
C18_Witness ==
  \E t \in Targeting :
    t.count >= 2 /\ t.dir = "next" /\ t.cur = t.count - 1 /\ t.target = 0

\* the first k landings are nexts on one rule that started from no current
\* index, each made when no other navigateToMatch call was under way
NextRun(k) ==
  /\ k \in DOMAIN last.nav
  /\ last.nav[1].cur = NoCurrent
  /\ \A j \in 1..k : /\ last.nav[j].dir = "next" /\ last.nav[j].rule = last.nav[1].rule
                     /\ ~last.nav[j].overlap

\* the matches of the files of the rule's scope, file by file in the order of
\* the locations
RECURSIVE TextMatches(_, _)
TextMatches(id, uris) ==
  IF uris = <<>> THEN <<>>
  ELSE LET ranges == findMatches(text[Head(uris)], rules[id]) IN
       [i \in DOMAIN ranges |-> [uri |-> Head(uris), range |-> ranges[i]]]
       \o TextMatches(id, Tail(uris))

ScopeMatches(id) == TextMatches(id, SortUris({d \in Docs : AppliesTo(id, d)}))

\* C19 as stated: N nexts from no current index, each made after the one
\* before has returned, return to the first match, and one previous from no
\* current index gives the last match.
C19_WrapAfterN ==
  /\ \A k \in DOMAIN last.nav :
       (NextRun(k) /\ k = last.nav[k].count) => last.nav[k].target = 0
  /\ (last.nav /= <<>> /\ last.nav[1].cur = NoCurrent /\ last.nav[1].dir = "previous")
       => last.nav[1].target = last.nav[1].count - 1

\* C19: N nexts from no current index, each made after the one before has
\* returned, land on the last of the N matches and the next after them returns
\* to the first match; one previous from no current index gives the last match.
C19_WrapAfterLast ==
  /\ \A k \in DOMAIN last.nav :
       /\ (NextRun(k) /\ k = last.nav[k].count) => last.nav[k].target = k - 1
       /\ (NextRun(k) /\ k = last.nav[k].count + 1) => last.nav[k].target = 0
  /\ (last.nav /= <<>> /\ last.nav[1].cur = NoCurrent /\ last.nav[1].dir = "previous")
       => last.nav[1].target = last.nav[1].count - 1

\* three nexts from no current index over two matches: the third is back on
\* the first match
C19_Witness ==
  /\ NextRun(3)
  /\ last.nav[3].count = 2 /\ last.nav[2].target = 1 /\ last.nav[3].target = 0

\* C20: from no current index, with no edit and no rule change in between and
\* each call made after the one before has returned, the k-th consecutive
\* next on a rule (1 <= k <= N) lands on the k-th match
\* of the rule's global order, also when consecutive targets are in different
\* documents and when a scope scan runs between the calls; with 2 matches in a
\* and 3 in b the third next lands on b#1.
C20_KthNext ==
  \A k \in DOMAIN last.nav :
    (NextRun(k) /\ k <= Len(ScopeMatches(last.nav[k].rule))) =>
      /\ last.nav[k].count = Len(ScopeMatches(last.nav[k].rule))
      /\ last.nav[k].target = k - 1
      /\ [uri |-> last.nav[k].doc, range |-> last.nav[k].range]
           = ScopeMatches(last.nav[k].rule)[k]

\* the third of three nexts from no current index, on a folder rule with 2
\* matches in DocA and 3 in DocB, has landed on the first match of DocB
C20_Witness ==
  /\ NextRun(3)
  /\ rules[last.nav[3].rule].scope = "folderRecursive"
  /\ TwoAndThree(rules[last.nav[3].rule])
  /\ last.nav[2].doc = DocA /\ last.nav[3].doc = DocB
  /\ last.nav[3].range = findMatches(text[DocB], rules[last.nav[3].rule])[1]

\* the rule has no cached match in any document
NoMatches(id) == getOrderedMatches(rules[id]) = <<>>

\* the step shows the target of a navigateToMatch call
Shows == \E t \in tasks \ tasks' : t.kind = "navigateToMatch" /\ t.phase = "open"

\* C21: a navigateToMatch that finds the rule without a match in any document
\* returns without anything else: no document is opened, no selection is set
\* and no local or global current index is recorded.
C21_NoMatchesNoEffect ==
  [][/\ \A id \in DOMAIN rules :
          (Called("navigateToMatch") /\ last'.rule = id /\ NoMatches(id) /\ ~Shows) =>
            /\ ~last'.ret /\ ~last'.fired
            /\ UNCHANGED <<hostVars, rules, ruleIndex, rulesByScope, documentRuleIds>>
     /\ \A t \in tasks' \ tasks :
          (t.kind = "navigateToMatch" /\ t.phase = "open") => ~NoMatches(t.rule)]_vars

\* a navigateToMatch on a folder rule without a match in any file has just
\* returned, after the scan it awaited
C21_Witness ==
  /\ last.op = "navigateToMatch" /\ ~last.ret
  /\ last.rule \in ruleIndex
  /\ rules[last.rule].scope = "folderRecursive"
  /\ NoMatches(last.rule)
  /\ tasks = {} /\ scans = {}
  /\ \A d \in Docs : findMatches(text[d], rules[last.rule]) = <<>>

\* the sum of the match counts the rule caches per document (getTotalMatchCount)
RECURSIVE SumCounts(_, _)
SumCounts(stats, ds) ==
  IF ds = {} THEN 0
  ELSE LET d == CHOOSE x \in ds : TRUE IN stats[d].matchCount + SumCounts(stats, ds \ {d})

getTotalMatchCount(r) == SumCounts(r.statsByDocument, DOMAIN r.statsByDocument)

\* C22: at every reachable state the cached global match index of a stored
\* rule is none or an integer from 1 to the rule's total match count, so a
\* snapshot never reports currentMatchIndex greater than matchCount.
C22_GlobalIndexInRange ==
  \A id \in ruleIndex :
    \/ rules[id].globalMatchIndex = NoIndex
    \/ rules[id].globalMatchIndex \in 1..getTotalMatchCount(rules[id])


\* Rules created with a file-name filter: what the panel's filter field may
\* hold when a rule is created on the shown document, for each scope.
MaxFilterCalls == 2

FileFilters == {<<>>, <<"a">>, <<" ", "|", "e", " ">>, <<"*", ".", "*">>}

FilterInputs ==
  [pattern : {ValidPattern}, color : {<<"r">>}, matchCase : {FALSE},
   matchWholeWord : {FALSE}, useRegex : {FALSE}, scope : Scopes, fileFilter : FileFilters]

InitFilter == InitWith(MaxFilterCalls, TRUE)

NextFilter ==
  \/ \E d \in Docs, o \in FilterInputs : Create(d, o)
  \/ \E s \in scans, ok \in BOOLEAN : ScanCollected(s, ok)
  \/ \E s \in scans, ok \in BOOLEAN : ScanFileRead(s, ok)

SpecFilter == InitFilter /\ [][NextFilter]_vars

\* C23: a document-scoped rule is applied to its target document, when that
\* document is shown, whatever the rule's file-name filter is: the document
\* lists the rule and the rule's stats hold the document's matches.
C23_DocumentScopeIgnoresFilter ==
  \A id \in ruleIndex :
    LET r == rules[id] IN
    (r.scope = "document" /\ r.targetUri \in visible) =>
      /\ id \in AppliedTo(r.targetUri)
      /\ r.targetUri \in DOMAIN r.statsByDocument
      /\ r.statsByDocument[r.targetUri].ranges = findMatches(text[r.targetUri], r)

\* the same for the rules stored without a filter
C23_UnfilteredDocumentScope ==
  \A id \in ruleIndex :
    LET r == rules[id] IN
    (r.scope = "document" /\ r.targetUri \in visible /\ r.filterMatchers = <<>>) =>
      /\ id \in AppliedTo(r.targetUri)
      /\ r.targetUri \in DOMAIN r.statsByDocument
      /\ r.statsByDocument[r.targetUri].ranges = findMatches(text[r.targetUri], r)


\* The scope choices the panel is given for a document: the options it may
\* pick and the one preselected when nothing has been picked.
getScopeOptionsForDocument(documentUri) ==
  <<resolveScopeForDocument(documentUri, "document")>>
  \o (IF getContainingFolderUri(documentUri) /= NoDoc
        THEN <<resolveScopeForDocument(documentUri, "folder"),
               resolveScopeForDocument(documentUri, "folderRecursive")>>
        ELSE <<>>)

getScopeSelectionData(documentUri) ==
  IF documentUri = NoDoc
    THEN [document |-> NoDoc, options |-> <<>>, defaultScope |-> "null"]
    ELSE [document |-> documentUri,
          options |-> getScopeOptionsForDocument(documentUri),
          defaultScope |-> resolveScopeForDocument(documentUri, "").scope]

\* the panel asks for the scope choices of the active editor's document
GetScopeSelectionData ==
  /\ Idle /\ budget > 0
  /\ Record("getScopeSelectionData", 0, getScopeSelectionData(active), Refused)
  /\ UNCHANGED <<storeVars, tasks, hostVars>>
  /\ Spend

MaxPanelCalls == 3

InitPanel == InitWith(MaxPanelCalls, TRUE)

NextPanel ==
  \/ \E d \in Docs, o \in StoreInputs : Create(d, o)
  \/ \E e \in Docs \cup {NoDoc} : ActiveEditorChanged(e)
  \/ GetScopeSelectionData
  \/ \E s \in scans, ok \in BOOLEAN : ScanCollected(s, ok)
  \/ \E s \in scans, ok \in BOOLEAN : ScanFileRead(s, ok)

SpecPanel == InitPanel /\ [][NextPanel]_vars

\* C24: with no scope preference the default scope is document scope: for the
\* document the panel asked about, resolveScopeForDocument without a preferred
\* scope and the defaultScope of getScopeSelectionData are both "document".
C24_DefaultScopeIsDocument ==
  (last.op = "getScopeSelectionData" /\ last.arg.document /= NoDoc) =>
    /\ last.arg.defaultScope = "document"
    /\ resolveScopeForDocument(last.arg.document, "").scope = "document"


(***************************************************************************)
(* Colours: the readable text colour of a decoration is chosen from the    *)
(* luminance of its background, parsed from the rule's colour string.      *)
(***************************************************************************)
HexLower == <<"0", "1", "2", "3", "4", "5", "6", "7", "8", "9", "a", "b", "c", "d", "e", "f">>
HexUpper == <<"0", "1", "2", "3", "4", "5", "6", "7", "8", "9", "A", "B", "C", "D", "E", "F">>

IsHexDigit(c) == \E i \in DOMAIN HexLower : HexLower[i] = c \/ HexUpper[i] = c

HexValue(c) == (CHOOSE i \in DOMAIN HexLower : HexLower[i] = c \/ HexUpper[i] = c) - 1

\* the longest prefix of s made of hexadecimal digits
RECURSIVE HexPrefix(_)
HexPrefix(s) ==
  IF s /= <<>> /\ IsHexDigit(Head(s)) THEN <<Head(s)>> \o HexPrefix(Tail(s)) ELSE <<>>

RECURSIVE HexNumber(_, _)
HexNumber(digits, acc) ==
  IF digits = <<>> THEN acc ELSE HexNumber(Tail(digits), 16 * acc + HexValue(Head(digits)))

NaN == [isNaN |-> TRUE, value |-> 0]

\* Number.parseInt(s, 16): leading white space is skipped, a sign and a 0x
\* prefix are accepted, and the digits are read up to the first character
\* that is not a hexadecimal digit; NaN when no digit is read
parseInt16(s) ==
  LET s1 == TrimStart(s)
      negative == s1 /= <<>> /\ Head(s1) = "-"
      s2 == IF s1 /= <<>> /\ Head(s1) \in {"+", "-"} THEN Tail(s1) ELSE s1
      s3 == IF Len(s2) >= 2 /\ s2[1] = "0" /\ s2[2] \in {"x", "X"}
              THEN SubSeq(s2, 3, Len(s2)) ELSE s2
      digits == HexPrefix(s3)
      magnitude == HexNumber(digits, 0)
  IN IF digits = <<>> THEN NaN
     ELSE [isNaN |-> FALSE, value |-> IF negative THEN 0 - magnitude ELSE magnitude]

RECURSIVE DoubleEach(_)
DoubleEach(s) == IF s = <<>> THEN <<>> ELSE <<Head(s), Head(s)>> \o DoubleEach(Tail(s))

NoColor == [ok |-> FALSE, r |-> 0, g |-> 0, b |-> 0]

\* (n >> k) & 0xff on a 32-bit integer; the numbers read from six digits lie
\* within -(2^24) .. 2^24, so the conversion to 32 bits changes nothing
ShiftMask(n, k) == (n \div (2 ^ k)) % 256

parseHexColor(value) ==
  LET trimmed == Trim(value)
      raw == Tail(trimmed)
      hex == IF Len(raw) \in {3, 4} THEN DoubleEach(SubSeq(raw, 1, 3))
             ELSE SubSeq(raw, 1, 6)
      numeric == parseInt16(hex)
  IN IF trimmed = <<>> \/ Head(trimmed) /= "#" THEN NoColor
     ELSE IF Len(raw) \notin {3, 4, 6, 8} THEN NoColor
     ELSE IF numeric.isNaN THEN NoColor
     ELSE [ok |-> TRUE, r |-> ShiftMask(numeric.value, 16),
           g |-> ShiftMask(numeric.value, 8), b |-> ShiftMask(numeric.value, 0)]

DarkForeground == <<"#", "1", "f", "1", "f", "1", "f">>
LightForeground == <<"#", "f", "f", "f", "f", "f", "f">>
NoForeground == <<>>

\* 1000 * 255 * luminance, and 1000 * 255 * 0.6: the code's comparison of
\* doubles, (0.299 r + 0.587 g + 0.114 b) / 255 > 0.6, decides as the exact
\* one does for every r, g, b in 0..255
Luminance1000(rgb) == 299 * rgb.r + 587 * rgb.g + 114 * rgb.b
LuminanceLimit1000 == 153000

\* a variant that takes the limit itself for dark
getReadableTextColorAtLimit(color) ==
  LET rgb == parseHexColor(color) IN
  IF ~rgb.ok THEN NoForeground
  ELSE IF Luminance1000(rgb) >= LuminanceLimit1000 THEN DarkForeground ELSE LightForeground

getReadableTextColor(color) ==
  LET rgb == parseHexColor(color) IN
  IF ~rgb.ok THEN NoForeground
  ELSE IF Luminance1000(rgb) > LuminanceLimit1000 THEN DarkForeground ELSE LightForeground

\* The colour strings given: every string of at most MaxColorLen characters
\* over ColorAlphabet, and the named ones.
MaxColorLen == 4
ColorAlphabet == {"#", "f", "0", "g"}

NamedColors ==
  {<<"#", "0", "0", "c", "4", "f", "f", "5", "5">>,
   <<"#", "0", "0", "c", "4", "f", "f">>,
   <<"#", "1", "f", "1", "f", "1", "f">>,
   <<"#", "9", "9", "9", "9", "9", "9">>,
   <<"#", "9", "a", "9", "9", "9", "9">>,
   <<"#", "f", "f", "f", "f", "f", "f", "g", "g">>,
   <<"#", "1", "2", "3", "4", "5", "g">>,
   <<"#", "f", "f", "f", "g">>,
   <<"#", "-", "1", "2", "3", "4", "5">>,
   <<"#", "0", "x", "1", "2", "3", "4">>,
   <<"#", "0", "F", "0">>,
   <<" ", "#", "f", "f", "f", " ">>,
   <<"#", " ", "f", "f", "f">>,
   <<"r", "e", "d">>,
   <<"r", "g", "b", "a", "(", "0", ",", "0", ",", "0", ",", "1", ")">>,
   <<"#", "f", "f", "f", "f", "f">>,
   <<"#", "f", "f", "f", "f", "f", "f", "f">>,
   <<"#", "f", "f", "f", "f", "f", "f", "f", "f", "f">>,
   <<"0", "0", "c", "4", "f", "f">>}

ColorStrings ==
  UNION {[1..n -> ColorAlphabet] : n \in 0..MaxColorLen} \cup NamedColors


\* The two colour functions applied to one colour string drawn from
\* ColorStrings; last.arg holds the string and what each function made of it.
InitColor ==
  /\ rules = <<>>
  /\ ruleIndex = {}
  /\ rulesByScope = EmptyMap
  /\ documentRuleIds = EmptyMap
  /\ pendingScopeScans = EmptyMap
  /\ pendingScopeRescanRuleIds = {}
  /\ scans = {}
  /\ nextScan = 1
  /\ disposed = <<>>
  /\ lastScan = EmptyMap
  /\ scopeChanged = {}
  /\ tasks = {}
  /\ visible = {DocB}
  /\ active = DocB
  /\ selection = [d \in Docs |-> <<0, 0>>]
  /\ text = [d \in Docs |-> TextOf(d)]
  /\ budget = 0
  /\ log = TRUE
  /\ \E c \in ColorStrings :
       last = [op |-> "color", rule |-> 0,
               arg |-> [value |-> c, rgb |-> NoColor, foreground |-> NoForeground],
               ret |-> FALSE, fired |-> FALSE, n |-> 0, nav |-> <<>>]

ParseHexColor ==
  /\ last.op = "color"
  /\ last' = [last EXCEPT !.op = "parseHexColor", !.n = @ + 1,
                          !.arg.rgb = parseHexColor(last.arg.value)]
  /\ UNCHANGED <<storeVars, tasks, hostVars, budget, log>>

GetReadableTextColor ==
  /\ last.op = "color"
  /\ last' = [last EXCEPT !.op = "getReadableTextColor", !.n = @ + 1,
                          !.arg.rgb = parseHexColor(last.arg.value),
                          !.arg.foreground = getReadableTextColor(last.arg.value)]
  /\ UNCHANGED <<storeVars, tasks, hostVars, budget, log>>

NextColor == ParseHexColor \/ GetReadableTextColor

SpecColor == InitColor /\ [][NextColor]_vars

\* "#" followed by 3, 4, 6 or 8 hexadecimal digits, once trimmed
IsHexForm(s) ==
  LET t == Trim(s) IN
  /\ t /= <<>> /\ Head(t) = "#"
  /\ Len(t) - 1 \in {3, 4, 6, 8}
  /\ \A i \in 2..Len(t) : IsHexDigit(t[i])

\* the colour such a string stands for: each digit of a short form doubled,
\* the alpha digits left out
HexFormColor(s) ==
  LET t == Trim(s)
      V(i) == HexValue(t[i])
  IN IF Len(t) - 1 \in {3, 4}
       THEN [ok |-> TRUE, r |-> 17 * V(2), g |-> 17 * V(3), b |-> 17 * V(4)]
       ELSE [ok |-> TRUE, r |-> 16 * V(2) + V(3), g |-> 16 * V(4) + V(5),
             b |-> 16 * V(6) + V(7)]

\* C25: parseHexColor returns the colour of a string of the form "#" and 3,
\* 4, 6 or 8 hexadecimal digits, and none for every other string.
C25_ParsesExactlyHexForms ==
  last.op = "parseHexColor" =>
    last.arg.rgb = IF IsHexForm(last.arg.value) THEN HexFormColor(last.arg.value)
                   ELSE NoColor

\* the part of it about the strings of that form
C25_HexFormsParsed ==
  (last.op = "parseHexColor" /\ IsHexForm(last.arg.value)) =>
    last.arg.rgb = HexFormColor(last.arg.value)


\* C26: getReadableTextColor returns none when the background does not parse,
\* the dark foreground exactly when 299 r + 587 g + 114 b > 0.6 * 255 * 1000
\* for the parsed background, and the light one otherwise; #00c4ff55 parses
\* to (0, 196, 255) and gets the light foreground.
C26_ReadableTextColor ==
  last.op = "getReadableTextColor" =>
    LET rgb == last.arg.rgb
        Dark == 299 * rgb.r + 587 * rgb.g + 114 * rgb.b > 6 * 255 * 100
    IN /\ ~rgb.ok => last.arg.foreground = NoForeground
       /\ (rgb.ok /\ Dark) => last.arg.foreground = DarkForeground
       /\ (rgb.ok /\ ~Dark) => last.arg.foreground = LightForeground
       /\ last.arg.value = <<"#", "0", "0", "c", "4", "f", "f", "5", "5">> =>
            /\ rgb = [ok |-> TRUE, r |-> 0, g |-> 196, b |-> 255]
            /\ last.arg.foreground = LightForeground

C26_Witness ==
  /\ last.op = "getReadableTextColor"
  /\ last.arg.value = <<"#", "0", "0", "c", "4", "f", "f", "5", "5">>
  /\ last.arg.rgb.ok
  /\ last.arg.foreground = LightForeground


(***************************************************************************)
(* Matching alone: findMatches for one literal rule on one document, the   *)
(* pattern, the text, the options and the word pattern of the document's   *)
(* language drawn from bounded sets.                                       *)
(***************************************************************************)
\* the letter U+00B5 (micro sign), one character that is neither ASCII nor a separator
Micro == "u+00b5"

MaxPatternLen == 2
MaxTextLen == 3

PatternAlphabet == {"a", "A", ".", "*", "(", "\\"}
TextAlphabet == {"a", "A", ".", "X", " ", "\\"}

NamedPatterns ==
  {<<"a", ".", "b">>,
   <<"c", "a", "t">>,
   <<"a", "e">>,
   <<"1", ".", "5">>}

NamedTexts ==
  {<<"a", "X", "b", "a", ".", "b">>,
   <<"a", ".", "b">>,
   <<"a", "X", "b">>,
    <<"e", " ", "A", "e", " ", "e", "e", " ", "A", "E", "e", "a">>,
   <<"1", ".", "5", Micro>>,
   <<"1", ".", "5", " ", Micro>>,
   <<"a", "1", ".", "5">>,
   <<"c", "a", "t", ".", "c", "a", "t", " ", "c", "a", "t", "s">>}

MatchPatterns == UNION {[1..n -> PatternAlphabet] : n \in 1..MaxPatternLen} \cup NamedPatterns

MatchTexts == UNION {[1..n -> TextAlphabet] : n \in 0..MaxTextLen} \cup NamedTexts

MatchInputs ==
  [pattern : MatchPatterns, text : MatchTexts, matchCase : BOOLEAN,
   matchWholeWord : BOOLEAN, wordPattern : WordPatterns]

\* the rule fields that matching reads
MatchRule(i) ==
  [pattern |-> i.pattern, useRegex |-> FALSE, matchCase |-> i.matchCase,
   matchWholeWord |-> i.matchWholeWord]

InitMatch ==
  /\ rules = <<>>
  /\ ruleIndex = {}
  /\ rulesByScope = EmptyMap
  /\ documentRuleIds = EmptyMap
  /\ pendingScopeScans = EmptyMap
  /\ pendingScopeRescanRuleIds = {}
  /\ scans = {}
  /\ nextScan = 1
  /\ disposed = <<>>
  /\ lastScan = EmptyMap
  /\ scopeChanged = {}
  /\ tasks = {}
  /\ visible = {DocB}
  /\ active = DocB
  /\ selection = [d \in Docs |-> <<0, 0>>]
  /\ text = [d \in Docs |-> TextOf(d)]
  /\ budget = 0
  /\ log = TRUE
  /\ \E i \in MatchInputs :
       last = [op |-> "document", rule |-> 0, arg |-> [input |-> i, ranges |-> <<>>],
               ret |-> FALSE, fired |-> FALSE, n |-> 0, nav |-> <<>>]

FindMatches ==
  /\ last.op = "document"
  /\ last' = [last EXCEPT
                !.op = "findMatches", !.n = @ + 1,
                !.arg.ranges = findMatchesIn(last.arg.input.wordPattern, last.arg.input.text,
                                             MatchRule(last.arg.input))]
  /\ UNCHANGED <<storeVars, tasks, hostVars, budget, log>>

NextMatch == FindMatches

SpecMatch == InitMatch /\ [][NextMatch]_vars

\* the characters of p stand at offset i of t, case folded unless matchCase
OccursAt(p, t, i, matchCase) ==
  /\ i + Len(p) <= Len(t)
  /\ \A k \in 1..Len(p) : IF matchCase THEN p[k] = t[i + k] ELSE Fold(p[k]) = Fold(t[i + k])

\* the occurrences of p in t from offset i on, left to right, each search
\* starting where the occurrence before ended
RECURSIVE LiteralScan(_, _, _, _)
LiteralScan(p, t, i, matchCase) ==
  IF i + Len(p) > Len(t) THEN <<>>
  ELSE IF OccursAt(p, t, i, matchCase)
    THEN <<(<<i, i + Len(p)>>)>> \o LiteralScan(p, t, i + Len(p), matchCase)
  ELSE LiteralScan(p, t, i + 1, matchCase)

IsWordChar(c) == ~IsWhitespace(c) /\ c \notin defaultWordSeparators

\* the match touches the boundary of the text or a non-word character, on
\* both sides
WordBounded(m, t) ==
  /\ m[1] = 0 \/ ~IsWordChar(t[m[1]])
  /\ m[2] = Len(t) \/ ~IsWordChar(t[m[2] + 1])

\* the text "The Cat sat in the CATalog" in the letters the model folds: the
\* word Ae for Cat, the word AEea for CATalog, and the pattern ae for cat
CatalogPattern == <<"a", "e">>

CatalogText == <<"e", " ", "A", "e", " ", "e", "e", " ", "A", "E", "e", "a">>

\* C28: every match that findMatches returns for a rule with matchWholeWord
\* has a non-word character, or the boundary of the text, immediately before
\* it and immediately after it; the pattern cat, case-insensitive, on "The Cat
\* sat in the CATalog" returns only "Cat" (here: ae on "e Ae ee AEea" returns
\* only "Ae").
C28_WholeWordBounded ==
  (last.op = "findMatches" /\ last.arg.input.matchWholeWord) =>
    /\ \A k \in DOMAIN last.arg.ranges : WordBounded(last.arg.ranges[k], last.arg.input.text)
    /\ (/\ last.arg.input.pattern = CatalogPattern
        /\ ~last.arg.input.matchCase
        /\ last.arg.input.text = CatalogText) => last.arg.ranges = <<(<<2, 4>>)>>

\* the same for the documents whose language contributes no word pattern
C28_WholeWordBySeparators ==
  (/\ last.op = "findMatches" /\ last.arg.input.matchWholeWord
   /\ last.arg.input.wordPattern = NoWordPattern) =>
    \A k \in DOMAIN last.arg.ranges : WordBounded(last.arg.ranges[k], last.arg.input.text)

\* the example, whatever the word pattern
C28_CatalogExample ==
  (/\ last.op = "findMatches" /\ last.arg.input.matchWholeWord
   /\ last.arg.input.pattern = CatalogPattern
   /\ ~last.arg.input.matchCase
   /\ last.arg.input.text = CatalogText) => last.arg.ranges = <<(<<2, 4>>)>>


\* the scan state of a rule id
ScanState(id) ==
  IF id \in pendingScopeRescanRuleIds
    THEN IF id \in DOMAIN pendingScopeScans THEN "running+pending" ELSE "pending"
  ELSE IF id \in DOMAIN pendingScopeScans THEN "running" ELSE "idle"

\* C29: the scan state of every rule id is idle, running or running+pending:
\* pendingScopeRescanRuleIds is a subset of the keys of pendingScopeScans, and
\* the keys of pendingScopeScans are the rules that have a scan in flight.
C29_ScanStates ==
  /\ pendingScopeRescanRuleIds \subseteq DOMAIN pendingScopeScans
  /\ DOMAIN pendingScopeScans = {s.rule : s \in scans}
  /\ \A id \in RuleIds : ScanState(id) \in {"idle", "running", "running+pending"}

C29_Witness ==
  \E id \in RuleIds :
    /\ ScanState(id) = "running+pending"
    /\ \E s \in scans : s.rule = id /\ s.requests > 0


\* The scans under the host's scheduling: a promise of the host (a file
\* enumeration, a file read) settles, one way or the other, and a
\* continuation that is due runs. The calls are those that request scans.
MaxFairCalls == 3

InitFair == InitWith(MaxFairCalls, FALSE)

NextFair ==
  \/ \E d \in Docs, o \in StoreInputs : Create(d, o)
  \/ \E id \in RuleIds, p \in UpdatePatterns : UpdateRulePattern(id, p)
  \/ \E id \in RuleIds : DeleteRule(id)
  \/ \E id \in RuleIds, dir \in {"next", "previous"} : Navigate(active, id, dir)
  \/ \E t \in tasks : NavAfterScan(t)
  \/ \E t \in tasks, ok \in BOOLEAN : NavShown(t, ok)
  \/ \E s \in scans, ok \in BOOLEAN : ScanCollected(s, ok)
  \/ \E s \in scans, ok \in BOOLEAN : ScanFileRead(s, ok)

SpecFair ==
  /\ InitFair /\ [][NextFair]_vars
  /\ WF_vars(\E s \in scans, ok \in BOOLEAN : ScanCollected(s, ok))
  /\ WF_vars(\E s \in scans, ok \in BOOLEAN : ScanFileRead(s, ok))
  /\ WF_vars(\E t \in tasks : NavAfterScan(t))

\* the scans that the calls of one behaviour can start
ScanIds == 1..(2 * MaxFairCalls)

InFlight(n) ==
  \/ \E s \in scans : s.sid = n
  \/ \E id \in DOMAIN pendingScopeScans : pendingScopeScans[id] = n

ScansIdle == scans = {} /\ pendingScopeScans = EmptyMap /\ pendingScopeRescanRuleIds = {}

\* C30: every scan that has started eventually finishes and its in-flight
\* entry is removed, whether the file enumeration and the file reads succeed
\* or fail; and once the scan requests have stopped, the scan state of every
\* rule returns to idle (no scan in flight, no rescan requested) for good.
C30_ScansTerminate ==
  /\ \A n \in ScanIds : InFlight(n) ~> ~InFlight(n)
  /\ <>[]ScansIdle

\* a scan that a request made while its predecessor ran, whose enumeration or
\* reads failed, has finished and left the rule idle
C30_Witness ==
  \E id \in DOMAIN lastScan :
    /\ lastScan[id].after > 0
    /\ lastScan[id].read = {}
    /\ ScansIdle


(***************************************************************************)
(* The end of a scope scan.                                                *)
(***************************************************************************)
\* the rule of the scan s has no cached global index and the step has called
\* notifyRulesChanged
ResetAndNotified(s) ==
  /\ rules'[s.rule].globalMatchIndex = NoIndex
  /\ last'.op = "performScopeScan" /\ last'.rule = s.rule /\ last'.fired

\* C31: when a scope scan of a rule ends, the rule's cached global match
\* index is none and the rules-changed notification has been fired, however
\* many files were processed or skipped.
C31_ScanEndResetsAndNotifies ==
  [][\A s \in scans : ScanEnds(s) => ResetAndNotified(s)]_vars

\* the same for the scans that end after their file enumeration succeeded
\* with at least one included file
C31_CompletedScanResetsAndNotifies ==
  [][\A s \in scans : (ScanEnds(s) /\ s.phase = "files") => ResetAndNotified(s)]_vars


\* the index half of C31 alone, for the behaviours that navigate
C31_ScanEndResetsIndex ==
  [][\A s \in scans : ScanEnds(s) => rules'[s.rule].globalMatchIndex = NoIndex]_vars


\* the files the scan s was given: the enumeration of its scope, filtered
ScanFiles(s) ==
  LET Included(u) == isFileIncluded(rules[s.rule], u)
  IN SelectSeq(collectUrisForRuleScope(s.scope, s.targetUri), Included)

\* the scan s goes on in this step as t
GoesOn(s, t) == t \in scans' /\ t.sid = s.sid

\* in this step the read of the next file of the scan s failed: the file
\* leaves the list of the scan without having been read
ReadFails(s) ==
  /\ s \in scans /\ s.phase = "files"
  /\ \/ \E t \in scans' : GoesOn(s, t) /\ t.todo = Tail(s.todo) /\ Head(s.todo) \notin t.read
     \/ ScanEnds(s) /\ Head(s.todo) \notin lastScan'[s.rule].read

\* C32: when the read of one file fails during a scope scan, the cached stats
\* of the rule stay as they were, the scan goes on with the files after it,
\* all of them, and ends as a completed scan does after the last one.
C32_FailedFileSkipped ==
  [][\A s \in scans : ReadFails(s) =>
       /\ rules'[s.rule].statsByDocument = rules[s.rule].statsByDocument
       /\ IF Len(s.todo) > 1
          THEN \E t \in scans' : /\ GoesOn(s, t) /\ t.phase = "files"
                                 /\ t.todo = Tail(s.todo) /\ t.read = s.read
          ELSE ScanEnds(s) /\ ResetAndNotified(s)]_vars

\* a scan is past a file it could not read, whose cached stats the rule still
\* has, and has another file to read
C32_Witness ==
  \E s \in scans :
    /\ s.phase = "files" /\ s.todo /= <<>>
    /\ \E i \in DOMAIN ScanFiles(s) :
         LET u == ScanFiles(s)[i] IN
           /\ u \notin s.read
           /\ \A j \in DOMAIN s.todo : s.todo[j] /= u
           /\ u \in DOMAIN rules[s.rule].statsByDocument


(***************************************************************************)
(* The current index of navigateToMatch.                                   *)
(***************************************************************************)
\* navigateToMatch on one rule, called for any document or for none, between
\* selection changes and changes of the active editor; the files can be
\* enumerated and read.
MaxCurrentCalls == 4

InitCurrent == InitNavigateWith({<<"e", " ", "a", " ", "a">>}, MaxCurrentCalls)

NextCurrent ==
  \/ \E d \in Docs, o \in StoreInputs : rules = <<>> /\ Create(d, o)
  \/ \E d \in Docs \cup {NoDoc}, id \in ruleIndex, dir \in {"next", "previous"} :
       Navigate(d, id, dir)
  \/ \E t \in tasks : NavAfterScan(t)
  \/ \E t \in tasks : NavShown(t, TRUE)
  \/ \E e \in Docs \cup {NoDoc} : ActiveEditorChanged(e)
  \/ \E d \in Docs, sel \in Selections : SelectionChanged(d, sel)
  \/ \E s \in scans : ScanCollected(s, TRUE)
  \/ \E s \in scans : ScanFileRead(s, TRUE)

SpecCurrent == InitCurrent /\ [][NextCurrent]_vars

\* (a) the global index of the match the selection of the active editor is on
LiveIndex(r) ==
  IF active /= NoDoc /\ active \in DOMAIN r.statsByDocument
  THEN computeGlobalMatchIndex(r, active,
         computeSelectionMatchIndex(selection[active], r.statsByDocument[active].ranges))
  ELSE NoIndex

\* (b) the global index of the last-known current match of the document uri
LastKnownIndex(r, uri) ==
  IF uri /= NoDoc /\ uri \in DOMAIN r.statsByDocument
  THEN computeGlobalMatchIndex(r, uri, r.statsByDocument[uri].currentMatchIndex)
  ELSE NoIndex

\* the first of (a), (b) and (c) the cached global index that is there,
\* 0-based as navigateToMatch holds it
FirstAvailable(r, uri) ==
  IF LiveIndex(r) /= NoIndex THEN LiveIndex(r) - 1
  ELSE IF LastKnownIndex(r, uri) /= NoIndex THEN LastKnownIndex(r, uri) - 1
  ELSE IF r.globalMatchIndex /= NoIndex THEN r.globalMatchIndex - 1
  ELSE NoCurrent

\* C33: the current index navigateToMatch starts from is the first available
\* of the global index of the live selection of the active editor, the global
\* index of the last-known local index of the supplied document, and the
\* cached global index of the rule; none when all three are absent.  For a
\* call that awaited a scan the supplied document is the one of the waiting
\* task; a call on a document-scoped rule goes on in the turn of the call.
C33_CurrentIndex ==
  [][/\ \A t \in tasks \ tasks', u \in tasks' \ tasks :
          (t.phase = "scan" /\ u.phase = "open")
            => u.cur = FirstAvailable(rules[t.rule], t.doc)
     /\ \A u \in tasks' \ tasks :
          (u.phase = "open" /\ tasks \subseteq tasks')
            => \E uri \in Docs \cup {NoDoc} : u.cur = FirstAvailable(rules[u.rule], uri)]_vars

\* a call goes on from the last-known index of the supplied document: the
\* live selection gives none and the cached index is another one
C33_Witness ==
  \E u \in tasks :
    /\ u.phase = "open" /\ u.cur /= NoCurrent
    /\ rules[u.rule].scope /= "document"
    /\ LiveIndex(rules[u.rule]) = NoIndex
    /\ rules[u.rule].globalMatchIndex - 1 /= u.cur

\* a call goes on from the cached index: neither the live selection nor any
\* document gives one
C33_WitnessCached ==
  \E u \in tasks :
    /\ u.phase = "open" /\ u.cur /= NoCurrent
    /\ LiveIndex(rules[u.rule]) = NoIndex
    /\ \A d \in Docs : LastKnownIndex(rules[u.rule], d) = NoIndex


(***************************************************************************)
(* computeSelectionMatchIndex on drawn selections and range lists.         *)
(***************************************************************************)
\* the state of a controller without rules whose last holds a drawn input
InitInput(op, inputs) ==
  /\ rules = <<>>
  /\ ruleIndex = {}
  /\ rulesByScope = EmptyMap
  /\ documentRuleIds = EmptyMap
  /\ pendingScopeScans = EmptyMap
  /\ pendingScopeRescanRuleIds = {}
  /\ scans = {}
  /\ nextScan = 1
  /\ disposed = <<>>
  /\ lastScan = EmptyMap
  /\ scopeChanged = {}
  /\ tasks = {}
  /\ visible = {DocB}
  /\ active = DocB
  /\ selection = [d \in Docs |-> <<0, 0>>]
  /\ text = [d \in Docs |-> TextOf(d)]
  /\ budget = 0
  /\ log = TRUE
  /\ \E a \in inputs :
       last = [op |-> op, rule |-> 0, arg |-> a, ret |-> FALSE, fired |-> FALSE,
               n |-> 0, nav |-> <<>>]

\* offsets of a one-line document and the length of a list of ranges
MaxOffset == 4
MaxRanges == 2

\* a selection: <<start, end>>, empty when the two are equal
SelectionInputs == {<<a, b>> \in (0..MaxOffset) \X (0..MaxOffset) : a <= b}

\* the ranges findMatches can return: none is empty, each starts where the
\* one before it ends or later
MatchRanges == {<<a, b>> \in (0..MaxOffset) \X (0..MaxOffset) : a < b}

RangeLists ==
  {rs \in UNION {[1..n -> MatchRanges] : n \in 0..MaxRanges} :
     \A i \in 1..(Len(rs) - 1) : rs[i][2] <= rs[i + 1][1]}

InitSelection ==
  InitInput("selection",
            {[selection |-> sel, ranges |-> rs, index |-> NoIndex] :
               sel \in SelectionInputs, rs \in RangeLists})

ComputeSelectionMatchIndex ==
  /\ last.op = "selection"
  /\ last' = [last EXCEPT
                !.op = "computeSelectionMatchIndex", !.n = @ + 1,
                !.arg.index = computeSelectionMatchIndex(last.arg.selection, last.arg.ranges)]
  /\ UNCHANGED <<storeVars, tasks, hostVars, budget, log>>

NextSelection == ComputeSelectionMatchIndex

SpecSelection == InitSelection /\ [][NextSelection]_vars

\* the selection equals or fully contains the range; an empty selection is
\* a caret, which the range contains
Qualifies(sel, range) ==
  IF sel[1] /= sel[2]
  THEN sel[1] <= range[1] /\ range[2] <= sel[2]
  ELSE range[1] <= sel[1] /\ sel[1] <= range[2]

\* C34: computeSelectionMatchIndex returns the 1-based index of the first
\* range the non-empty selection equals or fully contains, or the first range
\* that contains the caret of an empty selection, and none when no range
\* qualifies: the list is empty, or the selection only partly overlaps.
C34_SelectionMatchIndex ==
  last.op = "computeSelectionMatchIndex" =>
    LET sel == last.arg.selection
        ranges == last.arg.ranges
        index == last.arg.index
    IN IF \E i \in DOMAIN ranges : Qualifies(sel, ranges[i])
       THEN /\ index \in DOMAIN ranges
            /\ Qualifies(sel, ranges[index])
            /\ \A j \in 1..(index - 1) : ~Qualifies(sel, ranges[j])
       ELSE index = NoIndex

\* a non-empty selection that cuts through one match and contains none
C34_Witness ==
  /\ last.op = "computeSelectionMatchIndex"
  /\ last.arg.selection[1] /= last.arg.selection[2]
  /\ \E i \in DOMAIN last.arg.ranges :
       /\ last.arg.selection[1] < last.arg.ranges[i][2]
       /\ last.arg.selection[2] > last.arg.ranges[i][1]
  /\ last.arg.index = NoIndex


(***************************************************************************)
(* computeGlobalMatchIndex against getOrderedMatches.                      *)
(***************************************************************************)
\* the local indices asked for: none (NoIndex), those of the matches of a
\* text and one past the most a text holds
MaxLocalIndex == 4

\* updateCurrentMatchIndicesForEditor and navigateToMatch ask for the global
\* index of the localIndex-th match of the document uri
ComputeGlobalMatchIndex(id, uri, localIndex) ==
  /\ Idle /\ budget > 0
  /\ id \in ruleIndex
  /\ Record("computeGlobalMatchIndex", id,
            [uri |-> uri, localIndex |-> localIndex,
             globalIndex |-> computeGlobalMatchIndex(rules[id], uri, localIndex)],
            Refused)
  /\ UNCHANGED <<storeVars, tasks, hostVars>>
  /\ Spend

NextGlobal ==
  \/ \E d \in Docs, o \in StoreInputs : Create(d, o)
  \/ \E id \in RuleIds, uri \in Docs, i \in 0..MaxLocalIndex :
       ComputeGlobalMatchIndex(id, uri, i)
  \/ \E s \in scans, ok \in BOOLEAN : ScanCollected(s, ok)
  \/ \E s \in scans, ok \in BOOLEAN : ScanFileRead(s, ok)

SpecGlobal == InitOrder /\ [][NextGlobal]_vars

\* the 1-based positions of the match (uri, range) in the list matches
PositionsOf(matches, uri, range) ==
  {k \in DOMAIN matches : matches[k].uri = uri /\ matches[k].range = range}

\* the global index of the i-th match of uri as stated: its position in
\* getOrderedMatches, none without stats for uri or with i outside 1..matchCount
GlobalAsStated(r, uri, i) ==
  IF uri \notin DOMAIN r.statsByDocument THEN {NoIndex}
  ELSE IF i = NoIndex \/ i > r.statsByDocument[uri].matchCount THEN {NoIndex}
  ELSE PositionsOf(getOrderedMatches(r), uri, r.statsByDocument[uri].ranges[i])

\* C35: computeGlobalMatchIndex(rule, uri, i) is the 1-based position of the
\* i-th range of the document uri in getOrderedMatches(rule), for every
\* document with cached stats and every i in 1..matchCount; it is none when i
\* is none, when i exceeds the match count of the document and when the rule
\* has no stats for uri.
C35_GlobalIndexIsPosition ==
  [][Called("computeGlobalMatchIndex") =>
       GlobalAsStated(rules[last'.rule], last'.arg.uri, last'.arg.localIndex)
         = {last'.arg.globalIndex}]_vars

\* the global index of a match of the second document of a rule has been
\* asked for: the matches of the first document come before it
C35_Witness ==
  /\ last.op = "computeGlobalMatchIndex"
  /\ last.rule \in ruleIndex
  /\ DOMAIN rules[last.rule].statsByDocument = Docs
  /\ last.arg.uri = DocB
  /\ last.arg.localIndex >= 2
  /\ last.arg.globalIndex > last.arg.localIndex


\* the same at every state, for every rule the controller has made, every
\* document and every local index
C35_GlobalIndexEverywhere ==
  \A id \in DOMAIN rules, uri \in Docs, i \in 0..MaxLocalIndex :
    GlobalAsStated(rules[id], uri, i) = {computeGlobalMatchIndex(rules[id], uri, i)}


(***************************************************************************)
(* resolveScopeForDocument on drawn documents and preferred scopes.        *)
(***************************************************************************)
\* the documents: files at any depth up to MaxPathLen, the root included, and
\* documents that are no files (untitled ones), which have no folder
MaxPathLen == 3

PathAlphabet == {"f", "s", "a"}

ResolvePaths == UNION {[1..n -> PathAlphabet] : n \in 0..MaxPathLen}

ResolveDocs ==
  {[scheme |-> sch, path |-> p] : sch \in {"file", "untitled"}, p \in ResolvePaths}

\* "" stands for a call without preferredScope
PreferredScopes == Scopes \cup {""}

InitResolve ==
  InitInput("scope",
            {[document |-> d, preferredScope |-> sc, info |-> ScopeInfo("", NoDoc)] :
               d \in ResolveDocs, sc \in PreferredScopes})

ResolveScopeForDocument ==
  /\ last.op = "scope"
  /\ last' = [last EXCEPT
                !.op = "resolveScopeForDocument", !.n = @ + 1,
                !.arg.info = resolveScopeForDocument(last.arg.document,
                                                     last.arg.preferredScope)]
  /\ UNCHANGED <<storeVars, tasks, hostVars, budget, log>>

NextResolve == ResolveScopeForDocument

SpecResolve == InitResolve /\ [][NextResolve]_vars

\* the document has no containing folder: it is no file, or it is the root
NoContainingFolder(d) == d.scheme /= "file" \/ d.path = <<>>

\* the document scope identity of the document d
DocumentIdentity(d) ==
  [scope |-> "document", targetUri |-> d, key |-> <<"document", d>>]

\* C36: resolveScopeForDocument with preferredScope folder or folderRecursive
\* for a document without containing folder returns the document scope
\* identity of the document; with preferredScope document it returns the
\* document identity for every document.
C36_FallsBackToDocument ==
  last.op = "resolveScopeForDocument" =>
    /\ (/\ last.arg.preferredScope \in {"folder", "folderRecursive"}
        /\ NoContainingFolder(last.arg.document))
         => last.arg.info = DocumentIdentity(last.arg.document)
    /\ last.arg.preferredScope = "document"
         => last.arg.info = DocumentIdentity(last.arg.document)

\* a folder scope was asked for a document that is no file
C36_Witness ==
  /\ last.op = "resolveScopeForDocument"
  /\ last.arg.preferredScope = "folder"
  /\ last.arg.document.scheme = "untitled"
  /\ last.arg.info.scope = "document"


(***************************************************************************)
(* The loop of findMatches, turn by turn, on regular expressions.          *)
(***************************************************************************)
MaxLoopPatternLen == 3
MaxLoopTextLen == 3

LoopPatternAlphabet == {"a", "b", ".", "*"}
LoopTextAlphabet == {"a", "b"}

\* the patterns that compile: findMatches throws on the others before the
\* loop is entered
LoopPatterns ==
  {p \in UNION {[1..n -> LoopPatternAlphabet] : n \in 1..MaxLoopPatternLen} : RegExpOf(p).ok}

LoopTexts == UNION {[1..n -> LoopTextAlphabet] : n \in 0..MaxLoopTextLen}

LoopRule(i) ==
  [pattern |-> i.pattern, useRegex |-> TRUE, matchCase |-> TRUE,
   matchWholeWord |-> i.matchWholeWord]

LoopStart == [lastIndex |-> 0, ranges |-> <<>>, done |-> FALSE]

InitLoop ==
  InitInput("loop",
            {[input |-> [pattern |-> p, text |-> t, matchWholeWord |-> w], st |-> LoopStart] :
               p \in LoopPatterns, t \in LoopTexts, w \in BOOLEAN})

\* the first call of exec, and every further one
FindMatchesTurn ==
  /\ last.op \in {"loop", "findMatchesTurn"}
  /\ ~last.arg.st.done
  /\ LET i == last.arg.input
         regex == buildRegExp(LoopRule(i), i.pattern)
     IN last' = [last EXCEPT
                   !.op = "findMatchesTurn", !.n = @ + 1,
                   !.arg.st = findMatchesStep(regex, i.text, i.matchWholeWord, @)]
  /\ UNCHANGED <<storeVars, tasks, hostVars, budget, log>>

NextLoop == FindMatchesTurn

\* findMatches is synchronous: the loop is run turn after turn until exec
\* returns null
SpecLoop == InitLoop /\ [][NextLoop]_vars /\ WF_vars(NextLoop)

InLoop == last.op \in {"loop", "findMatchesTurn"}

\* what exec finds from the scan position of the loop
LoopExec ==
  RegExpExec(buildRegExp(LoopRule(last.arg.input), last.arg.input.pattern),
             last.arg.input.text, last.arg.st.lastIndex)

\* none of the ranges is empty, and each starts where the one before it ends
\* or later
RangesAscend(ranges) ==
  /\ \A k \in DOMAIN ranges : ranges[k][1] < ranges[k][2]
  /\ \A k \in 1..(Len(ranges) - 1) : ranges[k][2] <= ranges[k + 1][1]

\* C37: findMatches terminates on every text, also for matchers that match
\* the empty string: a zero-width match moves the scan position one character
\* past the match and emits nothing, every emitted range is non-empty, and
\* the emitted ranges are in strictly increasing order of their starts and do
\* not overlap.
C37_LoopTerminates ==
  /\ <>(InLoop /\ last.arg.st.done)
  /\ [][(InLoop /\ LoopExec /= NoMatch /\ LoopExec[1] = LoopExec[2]) =>
          /\ last'.arg.st.lastIndex = LoopExec[1] + 1
          /\ last'.arg.st.ranges = last.arg.st.ranges]_vars
  /\ [](InLoop => RangesAscend(last.arg.st.ranges))
  /\ []((InLoop /\ last.arg.st.done) =>
          last.arg.st.ranges = findMatches(last.arg.input.text, LoopRule(last.arg.input)))

\* the loop of a* on "baa" has ended: exec matched the empty string before
\* the b, and the loop went on to the two a
C37_Witness ==
  /\ last.op = "findMatchesTurn"
  /\ last.arg.input.pattern = <<"a", "*">>
  /\ last.arg.input.text = <<"b", "a", "a">>
  /\ last.arg.st.done
  /\ last.arg.st.ranges = <<(<<1, 3>>)>>


(***************************************************************************)
(* The patterns of the regex rules of the store.                           *)
(***************************************************************************)
\* create, updateRulePattern and toggleRuleOption with patterns that compile
\* and patterns that do not, in any order, and the scans they start
MaxRegexCalls == 3

InitRegex == InitWith(MaxRegexCalls, TRUE)

NextRegex ==
  \/ \E d \in Docs, o \in CreateInputs : Create(d, o)
  \/ \E id \in RuleIds, p \in UpdatePatterns : UpdateRulePattern(id, p)
  \/ \E id \in RuleIds, k \in OptionKeys : ToggleRuleOption(id, k)
  \/ \E s \in scans, ok \in BOOLEAN : ScanCollected(s, ok)
  \/ \E s \in scans, ok \in BOOLEAN : ScanFileRead(s, ok)

SpecRegex == InitRegex /\ [][NextRegex]_vars

\* C38: every rule of the store with useRegex has a pattern that compiles
\* under its options, whatever create, updateRulePattern and toggleRuleOption
\* calls were made and whether they succeeded; so the matcher of every rule
\* of the store can be built when an editor is applied or a file is scanned.
C38_StoredPatternsCompile ==
  \A id \in ruleIndex :
    /\ rules[id].useRegex => RegExpOf(rules[id].pattern).ok
    /\ buildRegExp(rules[id], rules[id].pattern).ok

\* a regex rule whose pattern was replaced has had an option toggled
C38_Witness ==
  /\ last.op = "toggleRuleOption" /\ last.arg = "matchCase" /\ last.ret
  /\ last.rule \in ruleIndex
  /\ rules[last.rule].useRegex /\ rules[last.rule].pattern = OtherPattern


(***************************************************************************)
(* The per-document stats under every operation that writes them.          *)
(***************************************************************************)
\* one rule stored over two files with matches; editors are applied,
\* selections and active editors change, documents are edited and closed,
\* scans run and navigateToMatch lands
MaxStatsCalls == 3

InitStats == InitNavigateWith({<<"e", "a", "A", "a">>}, MaxStatsCalls)

NextStats ==
  \/ \E d \in Docs, o \in StoreInputs : rules = <<>> /\ Create(d, o)
  \/ \E d \in Docs, id \in ruleIndex, dir \in {"next", "previous"} : Navigate(d, id, dir)
  \/ \E t \in tasks : NavAfterScan(t)
  \/ \E t \in tasks, ok \in BOOLEAN : NavShown(t, ok)
  \/ \E e \in Docs \cup {NoDoc} : ActiveEditorChanged(e)
  \/ \E d \in Docs : EditorHidden(d)
  \/ \E d \in Docs, sel \in Selections : SelectionChanged(d, sel)
  \/ \E d \in EventDocs, x \in EditedTexts : DocumentChanged(d, x)
  \/ \E d \in EventDocs : DocumentClosed(d)
  \/ \E s \in scans, ok \in BOOLEAN : ScanCollected(s, ok)
  \/ \E s \in scans, ok \in BOOLEAN : ScanFileRead(s, ok)

SpecStats == InitStats /\ [][NextStats]_vars

\* C39: every per-document stats entry of every rule has matchCount equal to
\* the number of its cached ranges and a currentMatchIndex that is none or in
\* 1..matchCount, after any sequence of apply, selection change, scan,
\* navigate and document close.
C39_StatsWellFormed ==
  \A id \in DOMAIN rules : \A d \in DOMAIN rules[id].statsByDocument :
    LET stats == rules[id].statsByDocument[d] IN
      /\ stats.matchCount = Len(stats.ranges)
      /\ stats.currentMatchIndex = NoIndex \/ stats.currentMatchIndex \in 1..stats.matchCount

\* navigateToMatch has landed on a match of the second of two documents with
\* stats, which is not the first match of the rule
C39_Witness ==
  /\ last.op = "navigateToMatch" /\ last.ret
  /\ LET r == rules[last.rule] IN
       /\ DOMAIN r.statsByDocument = Docs
       /\ r.statsByDocument[DocB].currentMatchIndex /= NoIndex
       /\ r.globalMatchIndex > r.statsByDocument[DocB].currentMatchIndex


----------------------------------------------------------------------------
\* Scans of a removed rule

\* the scans a step starts: performScopeScan activations with a fresh identity
StartedScans == {t \in scans' : t.sid >= nextScan}

\* the rule was in the store once and has been removed from it
Removed(id) == id \in DOMAIN rules /\ id \notin ruleIndex

\* C40 as stated: once a rule has been removed from the store, no step starts
\* a scope scan for it.
C40_NoScanForRemovedRule ==
  [][\A t \in StartedScans : ~Removed(t.rule)]_vars

\* C40, the trailing rescan: the end of a scan whose rule has been removed
\* starts no scan for that rule.
C40_NoTrailingRescanForRemovedRule ==
  [][\A s \in scans : (ScanEnds(s) /\ Removed(s.rule))
        => \A t \in StartedScans : t.rule /= s.rule]_vars

\* C40, the suspended navigation: resuming a navigation whose rule has been
\* removed starts no scan.
C40_ResumedNavigationStartsNoScan ==
  [][\A t \in tasks \ tasks' : (t.kind = "navigateToMatch" /\ Removed(t.rule))
        => StartedScans = {}]_vars

\* a navigation of a removed rule is suspended at the scan it awaits
C40_NavigationSuspendedAtRemoval ==
  \E t \in tasks : t.kind = "navigateToMatch" /\ t.phase = "scan" /\ Removed(t.rule)

====
